---- MODULE Spec2Model ----
(***************************************************************************)
(* The sender of e2sar_root.cpp: main() (the stream coordinator) spawns    *)
(* one processRootFile() worker per input file; the workers share one      *)
(* e2sar::Segmenter and the atomic counter global_buffer_id.  The          *)
(* Segmenter is an external collaborator: its answers to addToSendQueue    *)
(* and the moment it transmits a queued buffer and calls the release       *)
(* callback are choices of the environment.                                *)
(***************************************************************************)
EXTENDS Integers, Sequences, FiniteSets, TLC

\* ---------------------------------------------------------------- bounds
\* args.file_paths.size() is at most MaxFiles
MaxFiles == 2
\* the load of a run on several files: the entries of all its trees and the
\* faults of the Segmenter, taken together, are at most MaxLoad
MaxLoad == 3
\* the entries of the tree in a run on one file are at most MaxOneEntries
MaxOneEntries == 5
\* args.bufsize_mb is at most MaxBufsizeMb
MaxBufsizeMb == 2
\* bytes per unit of --bufsize-mb: 1024 * 1024 in the program, scaled down
\* so that a batch of a few records is a full batch
BudgetUnit == 128
\* faults of the Segmenter in one run: queue-full answers to streams that are
\* not stalled, non-transient errors, and buffers it fails to transmit
MaxFaults == 1
\* entries of the healthy stream in the stalled-transport specification
StallEntries == 1
\* entries of the stream the Segmenter may stall: more than one batch, so that
\* a record is left to read when the retries of a batch are exhausted
StalledEntries == 2
\* entries of the stream in the congested-transport specification
RetryEntries == 2
\* the load of a receiver run: the records the Reassembler delivers and the
\* lost-event reports it queues, taken together, are at most MaxRecv
MaxRecv == 2
\* writes of record files that fail in one receiver run
MaxWriteFaults == 1
\* entries of all the trees of a run that an interrupt signal may reach
SignalEntries == 1

\* the event numbers formatFilename is called with are 0 .. MaxFormatNum
MaxFormatNum == 42

\* the events of one batch of the codec specification
MaxBatchEvents == 2

\* entries of all the trees of a run whose console writes are followed
ConsoleEntries == 1

\* entries of the one tree of a sender run long enough to write a progress
\* line
ProgressEntries == 10

\* entries of all the trees of the sender of the loopback test
LoopbackEntries == 2

\* the events et_event_get gives the actor in one run
MaxActorEvents == 2

\* the entries of the tree in a run of the sequential sender
MaxSeqEntries == 3

\* ------------------------------------------------------- program constants
EVENT_SIZE == 128
MAX_RETRIES == 10000
DoublesPerEvent == 16
SizeofDouble == 8

\* the event numbers of the records the Reassembler delivers
EventNums == {0, 1}
\* the sizes, in bytes, of the records the Reassembler delivers
EventSizes == {1, 2}
\* the numbers of fragments received of the events the Reassembler gives up
FragCounts == {0, 1}

AllStreams == 0 .. (MaxFiles - 1)
RUNNING == -1

VARIABLES
    \* inputs of the run
    recv_data,          \* args.recv_data
    send_data,          \* args.send_data
    bufsize_mb,         \* args.bufsize_mb
    numFiles,           \* args.file_paths.size()
    nEntries,           \* tree->GetEntries() of each file
    readable,           \* the file opens and holds the tree
    \* main()
    mpc, spawnIdx, joinIdx, segmenter, success_count, failure_count,
    send_stats, reported_buffers, exit_status,
    \* shared by the workers
    global_buffer_id,
    \* processRootFile(), one per stream
    pc, i, batch, events_in_batch, current_buffer_id, buffer_size,
    sent, retry_count, stats, result,
    \* the heap: the batches each stream allocated, with their release counts
    heap,
    \* the Segmenter
    sendQueue, msgCnt, errCnt, stalled, congested, faultsLeft,
    \* the process-wide flag the SIGINT handler clears
    keep_receiving,
    \* receiveEvents() and the receiver branch of main()
    reassembler, recv_result, event_buffer, event_size, event_num, recv_stats,
    lostEvents, success,
    \* the buffers the Reassembler allocated, and the record files written
    recv_heap, files, writeFaultsLeft,
    \* the Reassembler's queue of lost-event reports
    lostQueue,
    \* history
    flushed, offers, ids,
    signalled, lastCall, callsMade, pollsAfterStop, persistsAfterStop,
    lostProduced,
    \* formatFilename(): its arguments and the string it returned
    pattern, format_num, filename,
    \* the record codec: the event, the batch vector and the byte buffer it
    \* is written to, the ET event handed to the actor, what the actor read
    dalitz, encoded, dest, et_event, actor_out,
    \* the console: the holder of cout_mutex, the threads in the middle of
    \* a write to std::cout or std::cerr, the place of each thread's last write
    cout_mutex, writers, printedAt,
    \* the buffers the Segmenter has put on the network, in order
    wire,
    \* an ET client (ersap_et_receiver, ersap_processor_actor): the ETSystem
    \* struct, --et-event-size, the calls made on the ET library, the events
    \* obtained from it
    et, et_event_size, etlib, etEvents,
    \* the actor's main(): its position, the flag its SIGINT handler clears,
    \* the event it holds
    apc, keep_running, pe,
    \* the sequential sender: its local buffer id counter, getMaxPldLen(),
    \* expected_frames, the frames sent of the buffer in transmission, the
    \* value processRootFile returned
    buffer_id, max_payload, expected_frames, headFrames, seq_result

inputVars == <<recv_data, send_data, bufsize_mb, numFiles, nEntries, readable>>
mainVars == <<mpc, spawnIdx, joinIdx, segmenter, success_count, failure_count,
              send_stats, reported_buffers, exit_status>>
workerVars == <<pc, i, batch, events_in_batch, current_buffer_id, buffer_size,
                sent, retry_count, stats, result>>
segVars == <<sendQueue, msgCnt, errCnt, stalled, congested, faultsLeft>>
histVars == <<flushed, offers, ids>>
\* the state of a receiver run
recvVars == <<keep_receiving, reassembler, recv_result, event_buffer, event_size,
              event_num, recv_stats, lostEvents, success, recv_heap, files,
              writeFaultsLeft, lostQueue>>
recvHistVars == <<signalled, lastCall, callsMade, pollsAfterStop,
                  persistsAfterStop, lostProduced>>
\* the call frames of the pure functions
unitVars == <<pattern, format_num, filename, dalitz, encoded, dest, et_event,
              actor_out>>
consoleVars == <<cout_mutex, writers, printedAt>>
etVars == <<et, et_event_size, etlib, etEvents, apc, keep_running, pe>>
seqVars == <<buffer_id, max_payload, expected_frames, headFrames, seq_result>>
libVars == <<unitVars, consoleVars, etVars, seqVars>>
vars == <<inputVars, mainVars, global_buffer_id, workerVars, heap, segVars, histVars,
          recvVars, recvHistVars, libVars, wire>>

Streams == 0 .. (numFiles - 1)

\* ------------------------------------------------------------ pure helpers
RECURSIVE SumTo(_, _)
SumTo(f, n) == IF n < 0 THEN 0 ELSE f[n] + SumTo(f, n - 1)

RECURSIVE Concat(_)
Concat(ss) == IF ss = <<>> THEN <<>> ELSE Head(ss) \o Concat(Tail(ss))

BATCH_SIZE_BYTES == bufsize_mb * BudgetUnit
BATCH_SIZE_EVENTS == BATCH_SIZE_BYTES \div EVENT_SIZE

\* a fresh ReceiveStats
NoRecvStats == [events_received |-> 0, events_written |-> 0, write_errors |-> 0,
                total_bytes |-> 0]

NoStats == [total_events_processed |-> 0, total_batches_sent |-> 0,
            total_buffers_sent |-> 0, total_bytes_sent |-> 0]

addBatchPerEvent(s, events, buffers, bytes) ==
    [total_events_processed |-> s.total_events_processed + events,
     total_batches_sent |-> s.total_batches_sent + events,
     total_buffers_sent |-> s.total_buffers_sent + buffers,
     total_bytes_sent |-> s.total_bytes_sent + bytes]
addBatch(s, events, buffers, bytes) ==
    [total_events_processed |-> s.total_events_processed + events,
     total_batches_sent |-> s.total_batches_sent + 1,
     total_buffers_sent |-> s.total_buffers_sent + buffers,
     total_bytes_sent |-> s.total_bytes_sent + bytes]

\* a fresh std::vector<double>, never released
NewBatch == [data |-> <<>>, byWorker |-> 0, byCallback |-> 0]

\* appendEventToVector: the 16 doubles of one event go to the end of the batch
appendEventToVector(event, vec) == Append(vec, event)

\* batch->size() * sizeof(double)
BufferSize(vec) == (Len(vec) * DoublesPerEvent) * SizeofDouble

\* the condition under which the worker hands its batch on
FlushDueNoLast(events, idx, n) == events >= BATCH_SIZE_EVENTS
FlushDueLate(events, idx, n) == events > BATCH_SIZE_EVENTS \/ idx = n - 1
FlushDue(events, idx, n) == events >= BATCH_SIZE_EVENTS \/ idx = n - 1

\* delete batch, by the worker
DeleteBatchLeak(h, w, k) == h
DeleteBatch(h, w, k) == [h EXCEPT ![w][k].byWorker = @ + 1]

\* freeBuffer, the release callback the Segmenter calls
freeBuffer(h, w, k) == [h EXCEPT ![w][k].byCallback = @ + 1]

\* ------------------------------------------------------------------ Init
InitProgram ==
    /\ mpc = "start" /\ spawnIdx = 0 /\ joinIdx = 0
    /\ segmenter = FALSE
    /\ success_count = 0 /\ failure_count = 0
    /\ send_stats = [msgCnt |-> 0, errCnt |-> 0]
    /\ reported_buffers = RUNNING
    /\ exit_status = RUNNING
    /\ global_buffer_id = 0
    /\ pc = [w \in AllStreams |-> "unspawned"]
    /\ i = [w \in AllStreams |-> 0]
    /\ batch = [w \in AllStreams |-> 0]
    /\ events_in_batch = [w \in AllStreams |-> 0]
    /\ current_buffer_id = [w \in AllStreams |-> 0]
    /\ buffer_size = [w \in AllStreams |-> 0]
    /\ sent = [w \in AllStreams |-> FALSE]
    /\ retry_count = [w \in AllStreams |-> 0]
    /\ stats = [w \in AllStreams |-> NoStats]
    /\ result = [w \in AllStreams |-> "none"]
    /\ heap = [w \in AllStreams |-> <<>>]
    /\ sendQueue = <<>> /\ msgCnt = 0 /\ errCnt = 0
    /\ flushed = [w \in AllStreams |-> <<>>]
    /\ offers = [w \in AllStreams |-> <<>>]
    /\ ids = [w \in AllStreams |-> <<>>]
    /\ keep_receiving = TRUE
    /\ reassembler = "null"
    /\ recv_result = "unset"
    /\ event_buffer = 0 /\ event_size = 0 /\ event_num = 0
    /\ recv_stats = NoRecvStats
    /\ lostEvents = <<>>
    /\ success = FALSE
    /\ recv_heap = <<>> /\ files = <<>>
    /\ lostQueue = <<>>
    /\ signalled = FALSE
    /\ lastCall = "none" /\ callsMade = {}
    /\ pollsAfterStop = 0 /\ persistsAfterStop = 0
    /\ lostProduced = <<>>

\* formatFilename was not called
NoName == [called |-> FALSE, threw |-> FALSE, name |-> <<>>]
InitNoFormat ==
    /\ pattern = <<>> /\ format_num = 0
    /\ filename = NoName

\* no event was read, nothing reached the actor
NoFourVector == [E |-> 0, Px |-> 0, Py |-> 0, Pz |-> 0]
NoDalitzEvent == [pi_plus |-> NoFourVector, pi_minus |-> NoFourVector,
                  gamma1 |-> NoFourVector, gamma2 |-> NoFourVector]
NoEtEvent == [put |-> FALSE, length |-> 0, data |-> <<>>]
NoActorOut == [kind |-> "none", record |-> NoDalitzEvent]
InitCodec ==
    /\ dalitz = NoDalitzEvent
    /\ encoded = <<>> /\ dest = <<>>
    /\ et_event = NoEtEvent
    /\ actor_out = NoActorOut

\* the threads that write to the console: the workers and main()
MainThread == MaxFiles
Threads == AllStreams \cup {MainThread}
Unlocked == -1
InitConsole ==
    /\ cout_mutex = Unlocked
    /\ writers = {}
    /\ printedAt = [t \in Threads |-> <<>>]

\* no ET system was opened, no actor runs
NoET == [system |-> 0, attachment |-> 0, event_size |-> 0, initialized |-> FALSE]
NoEtCalls == [open |-> 0, close |-> 0, attach |-> 0, detach |-> 0]
InitNoEt ==
    /\ et = NoET /\ et_event_size = 0
    /\ etlib = NoEtCalls /\ etEvents = <<>>
    /\ apc = "none" /\ keep_running = TRUE /\ pe = 0

\* the sequential sender does not run
InitNoSeq ==
    /\ buffer_id = 0 /\ max_payload = 1
    /\ expected_frames = 0 /\ headFrames = 0
    /\ seq_result = "running"

InitCommon ==
    /\ InitProgram
    /\ InitNoFormat /\ InitCodec /\ InitConsole
    /\ InitNoEt /\ InitNoSeq
    /\ wire = <<>>

\* the values of --bufsize-mb parseArgs lets through: 0 is refused only
\* under --send
BufsizeValues == (IF send_data THEN 1 ELSE 0) .. MaxBufsizeMb

\* a run without --recv
InitSender ==
    /\ recv_data = FALSE
    /\ writeFaultsLeft = 0

Init ==
    /\ InitSender
    /\ send_data \in BOOLEAN
    /\ bufsize_mb \in BufsizeValues
    /\ numFiles \in 1 .. MaxFiles
    /\ nEntries \in [AllStreams -> 0 .. MaxLoad]
    /\ faultsLeft \in 0 .. MaxFaults
    /\ SumTo(nEntries, MaxFiles - 1) + faultsLeft <= MaxLoad
    /\ readable \in [AllStreams -> BOOLEAN]
    /\ \A w \in AllStreams : w >= numFiles => nEntries[w] = 0 /\ readable[w]
    /\ stalled = {} /\ congested = {}
    /\ InitCommon

\* a run on one file
InitOne ==
    /\ InitSender
    /\ send_data \in BOOLEAN
    /\ bufsize_mb \in BufsizeValues
    /\ numFiles = 1
    /\ nEntries \in [AllStreams -> 0 .. MaxOneEntries]
    /\ readable \in [AllStreams -> BOOLEAN]
    /\ \A w \in AllStreams : w >= numFiles => nEntries[w] = 0 /\ readable[w]
    /\ stalled = {} /\ congested = {}
    /\ faultsLeft = MaxFaults
    /\ InitCommon

\* ------------------------------------------------------------------ main
\* if (!segmenter), on what initializeSegmenter returned
SegmenterIsNullNever(ok) == FALSE
SegmenterIsNull(ok) == ~ok

\* initializeSegmenter, and the reset of global_buffer_id
MainStart ==
    /\ mpc = "start"
    /\ ~recv_data
    /\ \E ok \in (IF send_data THEN BOOLEAN ELSE {TRUE}) :
         IF ~SegmenterIsNull(ok)
         THEN /\ segmenter' = (send_data /\ ok)
              /\ mpc' = "spawn"
              /\ exit_status' = exit_status
         ELSE /\ segmenter' = FALSE
              /\ mpc' = "exit"
              /\ exit_status' = 1
    /\ global_buffer_id' = 0
    /\ UNCHANGED <<inputVars, libVars, wire, recvVars, recvHistVars,
                   spawnIdx, joinIdx, success_count, failure_count,
                   send_stats, reported_buffers, workerVars, heap, segVars, histVars>>

\* one std::async(std::launch::async, processRootFile, ...)
MainSpawn ==
    /\ mpc = "spawn"
    /\ spawnIdx < numFiles
    /\ pc' = [pc EXCEPT ![spawnIdx] = "open"]
    /\ spawnIdx' = spawnIdx + 1
    /\ mpc' = IF spawnIdx + 1 = numFiles THEN "join" ELSE "spawn"
    /\ UNCHANGED <<inputVars, libVars, wire, recvVars, recvHistVars,
                   joinIdx, segmenter, success_count, failure_count,
                   send_stats, reported_buffers, exit_status, global_buffer_id,
                   i, batch, events_in_batch, current_buffer_id, buffer_size,
                   sent, retry_count, stats, result, heap, segVars, histVars>>

\* futures[i].get()
MainJoinNoWait ==
    /\ mpc = "join"
    /\ joinIdx < numFiles
    /\ IF pc[joinIdx] = "done" /\ result[joinIdx] = "true"
       THEN success_count' = success_count + 1 /\ failure_count' = failure_count
       ELSE failure_count' = failure_count + 1 /\ success_count' = success_count
    /\ joinIdx' = joinIdx + 1
    /\ mpc' = IF joinIdx + 1 = numFiles THEN "stats" ELSE "join"
    /\ UNCHANGED <<inputVars, libVars, wire, recvVars, recvHistVars,
                   spawnIdx, segmenter, send_stats, reported_buffers,
                   exit_status, global_buffer_id, workerVars, heap, segVars, histVars>>

MainJoin ==
    /\ mpc = "join"
    /\ joinIdx < numFiles
    /\ pc[joinIdx] = "done"
    /\ IF result[joinIdx] = "true"
       THEN success_count' = success_count + 1 /\ failure_count' = failure_count
       ELSE failure_count' = failure_count + 1 /\ success_count' = success_count
    /\ joinIdx' = joinIdx + 1
    /\ mpc' = IF joinIdx + 1 = numFiles THEN "stats" ELSE "join"
    /\ UNCHANGED <<inputVars, libVars, wire, recvVars, recvHistVars,
                   spawnIdx, segmenter, send_stats, reported_buffers,
                   exit_status, global_buffer_id, workerVars, heap, segVars, histVars>>

\* the exit status main returns
ExitStatusSuccessWins == IF success_count > 0 THEN 0 ELSE 1
ExitStatus == IF failure_count > 0 THEN 1 ELSE 0

\* after the last get(): when there is a Segmenter the 500 ms sleep, then
\* getSendStats and the load of global_buffer_id for the statistics
MainStats ==
    /\ mpc = "stats"
    /\ ~recv_data
    /\ IF segmenter
       THEN /\ send_stats' = [msgCnt |-> msgCnt, errCnt |-> errCnt]
            /\ reported_buffers' = global_buffer_id
       ELSE UNCHANGED <<send_stats, reported_buffers>>
    /\ mpc' = "summary"
    /\ UNCHANGED <<inputVars, libVars, wire, recvVars, recvHistVars,
                   spawnIdx, joinIdx, segmenter, success_count,
                   failure_count, exit_status, global_buffer_id, workerVars,
                   heap, segVars, histVars>>

\* the statistics and the summary are printed and main() returns; the
\* Segmenter, whose send thread ran on until here, is destroyed
MainReturn ==
    /\ mpc = "summary"
    /\ exit_status' = ExitStatus
    /\ mpc' = "exit"
    /\ UNCHANGED <<inputVars, libVars, wire, recvVars, recvHistVars,
                   spawnIdx, joinIdx, segmenter, success_count,
                   failure_count, send_stats, reported_buffers,
                   global_buffer_id, workerVars, heap, segVars, histVars>>

\* ------------------------------------------------------- processRootFile
\* TFile::Open, file->Get<TTree>, and the allocation of the first batch
Open(w) ==
    /\ pc[w] = "open"
    /\ IF ~readable[w]
       THEN /\ pc' = [pc EXCEPT ![w] = "done"]
            /\ result' = [result EXCEPT ![w] = "false"]
            /\ UNCHANGED <<heap, batch>>
       ELSE /\ heap' = [heap EXCEPT ![w] = Append(@, NewBatch)]
            /\ batch' = [batch EXCEPT ![w] = Len(heap[w]) + 1]
            /\ pc' = [pc EXCEPT ![w] = "loop"]
            /\ UNCHANGED result
    /\ events_in_batch' = [events_in_batch EXCEPT ![w] = 0]
    /\ i' = [i EXCEPT ![w] = 0]
    /\ UNCHANGED <<inputVars, libVars, wire, recvVars, recvHistVars,
                   mainVars, global_buffer_id, current_buffer_id,
                   buffer_size, sent, retry_count, stats, segVars, histVars>>

\* the end of one iteration of the for loop, with events the value of
\* events_in_batch after its increment: a new batch, and the count back to
\* 0, unless this was the last entry, then ++i
NextIterationSameBatch(w, h, events) ==
    /\ heap' = h
    /\ batch' = batch
    /\ events_in_batch' = [events_in_batch EXCEPT ![w] = 0]
    /\ i' = [i EXCEPT ![w] = @ + 1]
    /\ pc' = [pc EXCEPT ![w] = "loop"]

NextIteration(w, h, events) ==
    /\ IF i[w] < nEntries[w] - 1
       THEN /\ heap' = [h EXCEPT ![w] = Append(@, NewBatch)]
            /\ batch' = [batch EXCEPT ![w] = Len(h[w]) + 1]
            /\ events_in_batch' = [events_in_batch EXCEPT ![w] = 0]
       ELSE /\ heap' = h
            /\ events_in_batch' = [events_in_batch EXCEPT ![w] = events]
            /\ UNCHANGED batch
    /\ i' = [i EXCEPT ![w] = @ + 1]
    /\ pc' = [pc EXCEPT ![w] = "loop"]

\* the value global_buffer_id.fetch_add(1) returns
DrawnIdLocal(w) == Len(ids[w])
DrawnId(w) == global_buffer_id

\* buffer_ptr, buffer_size, the buffer id from the shared counter, and the
\* start of the retry loop
DrawSharedLocals(w, vec) ==
    /\ buffer_size' = [buffer_size EXCEPT ![w] = BufferSize(vec)]
    /\ current_buffer_id' = [current_buffer_id EXCEPT ![w] = DrawnId(w)]
    /\ global_buffer_id' = global_buffer_id + 1
    /\ sent' = [v \in AllStreams |-> FALSE]
    /\ retry_count' = [v \in AllStreams |-> 0]
    /\ ids' = [ids EXCEPT ![w] = Append(@, DrawnId(w))]
    /\ pc' = [pc EXCEPT ![w] = "send"]

Draw(w, vec) ==
    /\ buffer_size' = [buffer_size EXCEPT ![w] = BufferSize(vec)]
    /\ current_buffer_id' = [current_buffer_id EXCEPT ![w] = DrawnId(w)]
    /\ global_buffer_id' = global_buffer_id + 1
    /\ sent' = [sent EXCEPT ![w] = FALSE]
    /\ retry_count' = [retry_count EXCEPT ![w] = 0]
    /\ ids' = [ids EXCEPT ![w] = Append(@, DrawnId(w))]
    /\ pc' = [pc EXCEPT ![w] = "send"]

\* the for loop's test and one iteration up to the first call of the
\* Segmenter: the read of entry i, the append, and, when the batch is due,
\* either the draw of its buffer id (send mode) or its release (read-only)
Read(w) ==
    /\ pc[w] = "loop"
    /\ IF i[w] >= nEntries[w]
       THEN /\ pc' = [pc EXCEPT ![w] = "done"]
            /\ result' = [result EXCEPT ![w] = "true"]
            /\ UNCHANGED <<heap, batch, events_in_batch, i, flushed, ids,
                           global_buffer_id, current_buffer_id, buffer_size,
                           sent, retry_count>>
       ELSE LET filled == [heap EXCEPT ![w][batch[w]].data =
                               appendEventToVector(i[w], @)]
                events == events_in_batch[w] + 1
            IN  /\ UNCHANGED result
                /\ IF FlushDue(events, i[w], nEntries[w])
                   THEN /\ flushed' = [flushed EXCEPT ![w] =
                                Append(@, filled[w][batch[w]].data)]
                        /\ IF send_data /\ segmenter
                           THEN /\ heap' = filled
                                /\ events_in_batch' =
                                       [events_in_batch EXCEPT ![w] = events]
                                /\ Draw(w, filled[w][batch[w]].data)
                                /\ UNCHANGED <<batch, i>>
                           ELSE /\ NextIteration(w,
                                      IF ~send_data
                                      THEN DeleteBatch(filled, w, batch[w])
                                      ELSE filled,
                                      events)
                                /\ UNCHANGED <<ids, global_buffer_id,
                                               current_buffer_id, buffer_size,
                                               sent, retry_count>>
                   ELSE /\ heap' = filled
                        /\ events_in_batch' = [events_in_batch EXCEPT ![w] = events]
                        /\ i' = [i EXCEPT ![w] = @ + 1]
                        /\ UNCHANGED <<pc, batch, flushed, ids, global_buffer_id,
                                       current_buffer_id, buffer_size, sent,
                                       retry_count>>
    /\ UNCHANGED <<inputVars, libVars, wire, recvVars, recvHistVars,
                   mainVars, stats, segVars, offers>>

\* the test of the retry loop
RetryAllowedOffByOne(w) == ~sent[w] /\ retry_count[w] <= MAX_RETRIES
RetryAllowed(w) == ~sent[w] /\ retry_count[w] < MAX_RETRIES

\* the arguments of one addToSendQueue call: the buffer, its size and its id
EnqueueArgsPerAttempt(w) ==
    [w |-> w, k |-> batch[w], id |-> current_buffer_id[w] + retry_count[w],
     size |-> buffer_size[w], data |-> heap[w][batch[w]].data]
EnqueueArgs(w) ==
    [w |-> w, k |-> batch[w], id |-> current_buffer_id[w], size |-> buffer_size[w],
     data |-> heap[w][batch[w]].data]

\* send_result.has_error()
hasErrorNever(reply) == FALSE
has_error(reply) == reply # "ok"

\* send_result.error().code() == e2sar::E2SARErrorc::MemoryError
IsAnyError(reply) == reply # "ok"
IsQueueFull(reply) == reply = "full"

\* what the Segmenter may answer to a call of stream w: to a stalled stream
\* queue-full and nothing else; to a congested stream queue-full any number
\* of times until it accepts a call; else queue-full and errors count as faults
Replies(w) ==
    (IF w \in stalled THEN {} ELSE {"ok"})
    \cup (IF w \in stalled \cup congested \/ faultsLeft > 0 THEN {"full"} ELSE {})
    \cup (IF w \notin stalled /\ faultsLeft > 0 THEN {"err"} ELSE {})

NewOffer == [args |-> {}, calls |-> 0, fulls |-> 0, errs |-> 0, accepted |-> 0]

\* the history of the calls made for the batch stream w is sending
Logged(w, reply) ==
    LET old == IF Len(offers[w]) < Len(ids[w]) THEN Append(offers[w], NewOffer)
               ELSE offers[w]
        n == Len(old)
    IN  [old EXCEPT ![n] =
            [args |-> @.args \cup {EnqueueArgs(w)},
             calls |-> @.calls + 1,
             fulls |-> @.fulls + (IF reply = "full" THEN 1 ELSE 0),
             errs |-> @.errs + (IF reply = "err" THEN 1 ELSE 0),
             accepted |-> @.accepted + (IF reply = "ok" THEN 1 ELSE 0)]]

\* one pass of the retry loop: addToSendQueue and the handling of its result
Enqueue(w) ==
    /\ pc[w] = "send"
    /\ RetryAllowed(w)
    /\ \E reply \in Replies(w) :
         /\ offers' = [offers EXCEPT ![w] = Logged(w, reply)]
         /\ faultsLeft' = IF reply = "err"
                             \/ (reply = "full" /\ w \notin stalled \cup congested)
                          THEN faultsLeft - 1 ELSE faultsLeft
         /\ congested' = IF reply = "ok" THEN congested \ {w} ELSE congested
         /\ sendQueue' = IF reply = "ok" THEN Append(sendQueue, EnqueueArgs(w))
                          ELSE sendQueue
         /\ IF ~has_error(reply)
            THEN /\ sent' = [sent EXCEPT ![w] = TRUE]
                 /\ UNCHANGED <<retry_count, heap, pc, result>>
            ELSE IF IsQueueFull(reply)
            THEN /\ retry_count' = [retry_count EXCEPT ![w] = @ + 1]
                 /\ UNCHANGED <<sent, heap, pc, result>>
            ELSE /\ heap' = DeleteBatch(heap, w, batch[w])
                 /\ pc' = [pc EXCEPT ![w] = "done"]
                 /\ result' = [result EXCEPT ![w] = "false"]
                 /\ UNCHANGED <<sent, retry_count>>
    /\ UNCHANGED <<inputVars, libVars, wire, recvVars, recvHistVars,
                   mainVars, global_buffer_id, i, batch, events_in_batch,
                   current_buffer_id, buffer_size, stats, msgCnt, errCnt, stalled,
                   flushed, ids>>

\* after the retry loop: give up, or count the batch and go on
AfterRetries(w) ==
    /\ pc[w] = "send"
    /\ ~RetryAllowed(w)
    /\ IF ~sent[w]
       THEN /\ heap' = DeleteBatch(heap, w, batch[w])
            /\ pc' = [pc EXCEPT ![w] = "done"]
            /\ result' = [result EXCEPT ![w] = "false"]
            /\ UNCHANGED <<stats, batch, events_in_batch, i>>
       ELSE /\ stats' = [stats EXCEPT ![w] =
                            addBatch(@, events_in_batch[w], 1, buffer_size[w])]
            /\ NextIteration(w, heap, events_in_batch[w])
            /\ UNCHANGED result
    /\ UNCHANGED <<inputVars, libVars, wire, recvVars, recvHistVars,
                   mainVars, global_buffer_id, current_buffer_id,
                   buffer_size, sent, retry_count, segVars, histVars>>

\* ------------------------------------------------------------ the Segmenter
\* the send thread takes the oldest queued buffer, transmits it or fails to,
\* and calls the release callback
SendThread ==
    /\ mpc # "exit"
    /\ sendQueue # <<>>
    /\ LET b == Head(sendQueue)
       IN  /\ sendQueue' = Tail(sendQueue)
           /\ heap' = freeBuffer(heap, b.w, b.k)
           /\ \E ok \in (IF faultsLeft > 0 THEN BOOLEAN ELSE {TRUE}) :
                IF ok
                THEN msgCnt' = msgCnt + 1 /\ UNCHANGED <<errCnt, faultsLeft>>
                ELSE /\ errCnt' = errCnt + 1
                     /\ faultsLeft' = faultsLeft - 1
                     /\ UNCHANGED msgCnt
    /\ UNCHANGED <<inputVars, libVars, recvVars, recvHistVars,
                   mainVars, global_buffer_id, workerVars, stalled,
                   congested, histVars>>

\* the send thread in a run whose receiving end is not part of the model
Transmit == SendThread /\ UNCHANGED wire

\* ------------------------------------------------------------------- Next
Worker(w) == Open(w) \/ Read(w) \/ Enqueue(w) \/ AfterRetries(w)

Next ==
    \/ MainStart \/ MainSpawn \/ MainJoin \/ MainStats \/ MainReturn
    \/ \E w \in AllStreams : Worker(w)
    \/ Transmit

Spec == Init /\ [][Next]_vars

\* a run on two files in which the Segmenter may answer queue-full to every
\* call of stream 0, next to a second stream it serves
InitStall ==
    /\ InitSender
    /\ send_data = TRUE
    /\ bufsize_mb = 1
    /\ numFiles = 2
    /\ nEntries \in [AllStreams -> 0 .. StalledEntries]
    /\ nEntries[0] = StalledEntries
    /\ nEntries[1] \in {0, StallEntries}
    /\ readable \in [AllStreams -> BOOLEAN]
    /\ \A w \in AllStreams : w >= numFiles => nEntries[w] = 0 /\ readable[w]
    /\ stalled \in {{}, {0}} /\ congested = {}
    /\ faultsLeft \in {0, 1}
    /\ InitCommon

SpecStall == InitStall /\ [][Next]_vars

SpecOne == InitOne /\ [][Next]_vars

\* a run on one file in which the Segmenter may answer queue-full to any
\* number of calls before it accepts one
InitRetry ==
    /\ InitSender
    /\ send_data = TRUE
    /\ bufsize_mb = 1
    /\ numFiles = 1
    /\ nEntries \in [AllStreams -> 0 .. RetryEntries]
    /\ nEntries[0] >= 1
    /\ readable = [w \in AllStreams |-> TRUE]
    /\ \A w \in AllStreams : w >= numFiles => nEntries[w] = 0
    /\ stalled = {} /\ congested = {0}
    /\ faultsLeft = 0
    /\ InitCommon

SpecRetry == InitRetry /\ [][Next]_vars

\* ---------------------------------------------------------- formatFilename
\* a std::string is the sequence of its characters; positions count from 0
Digits == <<"0", "1", "2", "3", "4", "5", "6", "7", "8", "9">>
DigitSet == {Digits[k] : k \in 1 .. 10}
DigitVal(c) == (CHOOSE k \in 1 .. 10 : Digits[k] = c) - 1

\* std::string::npos
npos == -1

\* pattern.find(sub, pos): the first place at or after pos where sub occurs
find(s, sub, pos) ==
    LET hits == {q \in pos .. (Len(s) - Len(sub)) :
                    SubSeq(s, q + 1, q + Len(sub)) = sub}
    IN  IF hits = {} THEN npos
        ELSE CHOOSE q \in hits : \A r \in hits : q <= r

\* s.substr(pos, len): at most len characters from pos; a len that is npos
\* or, as a size_t, wrapped around below zero reaches the end of s
substr(s, pos, len) ==
    SubSeq(s, pos + 1,
           IF len < 0 \/ pos + len > Len(s) THEN Len(s) ELSE pos + len)

\* the largest int
INT_MAX == 2147483647

\* the characters std::isspace holds of in the "C" locale: space, \t, \n,
\* \r, \f and \v (written here by its escape, "\\v")
SpaceSet == {" ", "\t", "\n", "\r", "\f", "\\v"}

\* the digits of std::stoi, most significant first: the number read so far
\* while it fits an int; "min" when it is INT_MAX + 1, which fits with a
\* minus sign only; "over" when it is larger
RECURSIVE ParseDigits(_, _)
ParseDigits(s, acc) ==
    IF s = <<>> \/ Head(s) \notin DigitSet THEN acc
    ELSE LET d == DigitVal(Head(s))
             next == IF acc.range # "int" THEN [range |-> "over", value |-> 0]
                     ELSE IF acc.value < INT_MAX \div 10
                          \/ (acc.value = INT_MAX \div 10 /\ d <= INT_MAX % 10)
                     THEN [range |-> "int", value |-> acc.value * 10 + d]
                     ELSE IF acc.value = INT_MAX \div 10 /\ d = (INT_MAX % 10) + 1
                     THEN [range |-> "min", value |-> 0]
                     ELSE [range |-> "over", value |-> 0]
         IN  ParseDigits(Tail(s), next)

\* std::stoi: leading white space, an optional sign, then the leading
\* digits; it throws std::invalid_argument when no digit follows and
\* std::out_of_range when the number does not fit an int
RECURSIVE stoi(_)
stoi(s) ==
    IF s # <<>> /\ Head(s) \in SpaceSet THEN stoi(Tail(s))
    ELSE LET signed == s # <<>> /\ Head(s) \in {"+", "-"}
             minus == signed /\ Head(s) = "-"
             body == IF signed THEN Tail(s) ELSE s
             parsed == ParseDigits(body, [range |-> "int", value |-> 0])
         IN  IF body = <<>> \/ Head(body) \notin DigitSet
             THEN [threw |-> TRUE, value |-> 0]
             ELSE IF parsed.range = "over" \/ (parsed.range = "min" /\ ~minus)
             THEN [threw |-> TRUE, value |-> 0]
             ELSE IF parsed.range = "min"
             THEN [threw |-> FALSE, value |-> (0 - INT_MAX) - 1]
             ELSE [threw |-> FALSE,
                   value |-> IF minus THEN 0 - parsed.value ELSE parsed.value]

\* operator<< of a uint64_t: its decimal digits
RECURSIVE Decimal(_)
Decimal(n) ==
    IF n < 10 THEN <<Digits[n + 1]>>
    ELSE Append(Decimal(n \div 10), Digits[(n % 10) + 1])

\* std::setfill(fill_char) << std::setw(width) << event_num
PaddedCut(fill_char, width, num) ==
    LET text == Decimal(num)
    IN  IF Len(text) >= width
        THEN SubSeq(text, Len(text) - width + 1, Len(text))
        ELSE [k \in 1 .. (width - Len(text)) |-> fill_char] \o text
Padded(fill_char, width, num) ==
    LET text == Decimal(num)
    IN  IF Len(text) >= width THEN text
        ELSE [k \in 1 .. (width - Len(text)) |-> fill_char] \o text

\* the width a format spec asks for, as the function parses it: the spec
\* without its last character goes to std::stoi
ParsedWidth(format_spec) ==
    IF Len(format_spec) >= 2
    THEN stoi(substr(format_spec, 0, Len(format_spec) - 1))
    ELSE [threw |-> FALSE, value |-> 0]

\* the while loop of formatFilename, from position pos with oss written so
\* far; an exception of std::stoi leaves the function
RECURSIVE FormatLoop(_, _, _, _)
FormatLoop(pat, num, pos, oss) ==
    IF ~(pos < Len(pat)) THEN [threw |-> FALSE, name |-> oss]
    ELSE LET start == find(pat, <<"{", ":">>, pos)
         IN  IF start = npos
             THEN [threw |-> FALSE, name |-> oss \o substr(pat, pos, npos)]
             ELSE LET copied == oss \o substr(pat, pos, start - pos)
                      end == find(pat, <<"}">>, start)
                  IN  IF end = npos
                      THEN [threw |-> FALSE,
                            name |-> copied \o substr(pat, start, npos)]
                      ELSE LET format_spec == substr(pat, start + 2, end - start - 3)
                               width == ParsedWidth(format_spec)
                           IN  IF width.threw
                               THEN [threw |-> TRUE, name |-> <<>>]
                               ELSE FormatLoop(pat, num, end + 1,
                                               copied \o Padded("0", width.value, num))

formatFilename(pat, num) == FormatLoop(pat, num, 0, <<>>)

\* the default of --output-pattern, event_{:08d}.dat
DefaultPattern == <<"e", "v", "e", "n", "t", "_", "{", ":", "0", "8", "d", "}",
                    ".", "d", "a", "t">>

\* the patterns of the calls: the default, data_{:06d}.bin, a pattern
\* without placeholder, an unterminated placeholder, two placeholders,
\* {:d}, {:}, n{:0300d}, a width after a tab, x{:\t4dd}y, and a width
\* above INT_MAX, x{:099999999999d}y
Patterns ==
    { DefaultPattern,
      <<"d", "a", "t", "a", "_", "{", ":", "0", "6", "d", "}", ".", "b", "i", "n">>,
      <<"p", "l", "a", "i", "n">>,
      <<"a", "{", ":", "0", "8", "d">>,
      <<"{", ":", "0", "2", "d", "}", "-", "{", ":", "0", "4", "d", "}">>,
      <<"e", "{", ":", "d", "}", "x">>,
      <<"e", "{", ":", "}", "x">>,
      <<"n", "{", ":", "0", "3", "0", "0", "d", "}">>,
      <<"x", "{", ":", "\t", "4", "d", "d", "}", "y">>,
      <<"x", "{", ":", "0", "9", "9", "9", "9", "9", "9", "9", "9", "9", "9",
        "9", "d", "}", "y">> }

\* ------------------------------------------------------- the receiver run
\* the positions of main() inside the while loop of receiveEvents
LoopStates == {"while", "call", "wait", "check", "write", "free"}

\* the record of one call on the Reassembler
Called(c) ==
    /\ lastCall' = c
    /\ callsMade' = callsMade \cup {c}

\* signal(SIGINT, signalHandler), the first statement of the receiver branch
\* of main(); until then SIGINT has its default action
RecvInstall ==
    /\ mpc = "start"
    /\ recv_data
    /\ mpc' = "init"
    /\ UNCHANGED <<inputVars, libVars, wire, spawnIdx, joinIdx, segmenter, success_count,
                   failure_count, send_stats, reported_buffers, exit_status,
                   global_buffer_id, workerVars, heap, segVars, histVars,
                   recvVars, recvHistVars>>

\* the ways initializeReassembler ends: the URI or the IP address does not
\* parse and no Reassembler is made; openAndStart is called on the new
\* Reassembler and fails; openAndStart succeeds
StartOutcomes == {"unparsed", "open_failed", "started"}

\* initializeReassembler: nullptr when the URI or the IP address does not
\* parse or openAndStart fails; a Reassembler whose openAndStart failed is
\* destroyed on the return
RecvStart ==
    /\ mpc = "init"
    /\ recv_data
    /\ \E outcome \in StartOutcomes :
         IF outcome = "started"
         THEN /\ reassembler' = "running"
              /\ Called("openAndStart")
              /\ mpc' = "while"
              /\ exit_status' = exit_status
         ELSE /\ mpc' = "exit"
              /\ exit_status' = 1
              /\ UNCHANGED reassembler
              /\ IF outcome = "open_failed"
                 THEN Called("openAndStart")
                 ELSE UNCHANGED <<lastCall, callsMade>>
    /\ UNCHANGED <<inputVars, libVars, wire, spawnIdx, joinIdx, segmenter, success_count,
                   failure_count, send_stats, reported_buffers, global_buffer_id,
                   workerVars, heap, segVars, histVars, keep_receiving,
                   recv_result, event_buffer, event_size, event_num, recv_stats,
                   lostEvents, success, recv_heap, files, writeFaultsLeft,
                   lostQueue, signalled, pollsAfterStop, persistsAfterStop,
                   lostProduced>>

\* what main() and the sender leave alone during a receiver run
RecvFrame ==
    UNCHANGED <<inputVars, libVars, wire, spawnIdx, joinIdx, segmenter, success_count,
                failure_count, send_stats, reported_buffers, global_buffer_id,
                workerVars, heap, segVars, histVars, signalled, lostProduced>>

\* the test of while (keep_receiving)
KeepReceivingAlways == TRUE
KeepReceiving == keep_receiving

LoopTest ==
    /\ mpc = "while"
    /\ mpc' = IF KeepReceiving THEN "call" ELSE "stats"
    /\ RecvFrame
    /\ UNCHANGED <<exit_status, recvVars, lastCall, callsMade, pollsAfterStop,
                   persistsAfterStop>>

\* the call reassembler.recvEvent(..., 1000)
Poll ==
    /\ mpc = "call"
    /\ Called("recvEvent")
    /\ pollsAfterStop' = IF keep_receiving THEN pollsAfterStop
                         ELSE pollsAfterStop + 1
    /\ mpc' = "wait"
    /\ RecvFrame
    /\ UNCHANGED <<exit_status, recvVars, persistsAfterStop>>

\* a buffer the Reassembler allocated for a delivered event
NewEventBuffer(num, size) ==
    [num |-> num, size |-> size, tried |-> 0, freed |-> 0]

\* recvEvent returns within its timeout: an event in a buffer of the
\* Reassembler, no event (-1), or an error
RecvReturn ==
    /\ mpc = "wait"
    /\ \/ /\ Len(recv_heap) + Len(lostProduced) < MaxRecv
          /\ \E num \in EventNums, size \in EventSizes :
               /\ recv_heap' = Append(recv_heap, NewEventBuffer(num, size))
               /\ event_buffer' = Len(recv_heap) + 1
               /\ event_size' = size
               /\ event_num' = num
               /\ recv_result' = "event"
       \/ /\ \E res \in {"none", "error"} : recv_result' = res
          /\ UNCHANGED <<recv_heap, event_buffer, event_size, event_num>>
    /\ mpc' = "check"
    /\ RecvFrame
    /\ UNCHANGED <<exit_status, keep_receiving, reassembler, recv_stats,
                   lostEvents, success, files, writeFaultsLeft, lostQueue,
                   lastCall, callsMade, pollsAfterStop, persistsAfterStop>>

\* neither result.has_error() nor result.value() == -1
IsRecordUnlessNone(res) == res # "none"
IsRecord(res) == res = "event"

\* stats.events_received++ and stats.total_bytes += event_size
CountReceivedNoBytes(s, size) == [s EXCEPT !.events_received = @ + 1]
CountReceived(s, size) ==
    [s EXCEPT !.events_received = @ + 1, !.total_bytes = @ + size]

\* the two continue statements, and the counting of a delivered event
Check ==
    /\ mpc = "check"
    /\ IF ~IsRecord(recv_result)
       THEN /\ mpc' = "while"
            /\ UNCHANGED recv_stats
       ELSE /\ recv_stats' = CountReceived(recv_stats, event_size)
            /\ mpc' = "write"
    /\ RecvFrame
    /\ UNCHANGED <<exit_status, keep_receiving, reassembler, recv_result,
                   event_buffer, event_size, event_num, lostEvents, success,
                   recv_heap, files, writeFaultsLeft, lostQueue, lastCall,
                   callsMade, pollsAfterStop, persistsAfterStop>>

\* stats.events_written++
CountWritten(s) == [s EXCEPT !.events_written = @ + 1]

\* stats.write_errors++
CountWriteErrorAsWritten(s) ==
    [s EXCEPT !.write_errors = @ + 1, !.events_written = @ + 1]
CountWriteError(s) == [s EXCEPT !.write_errors = @ + 1]

\* std::string filename = formatFilename(output_pattern, event_num), then
\* writeMemoryMappedFile(filename, event_buffer, event_size) and the counting
\* of its outcome.  An exception of formatFilename leaves receiveEvents: the
\* handler of main() returns 1, and the Reassembler is destroyed with the
\* frame of main()
Persist ==
    /\ mpc = "write"
    /\ LET r == formatFilename(pattern, event_num)
       IN  /\ filename' = [called |-> TRUE, threw |-> r.threw, name |-> r.name]
           /\ format_num' = event_num
           /\ IF r.threw
              THEN /\ mpc' = "exit"
                   /\ exit_status' = 1
                   /\ reassembler' = "stopped"
                   /\ UNCHANGED <<files, recv_stats, writeFaultsLeft, recv_heap>>
              ELSE /\ \E ok \in (IF writeFaultsLeft > 0 THEN BOOLEAN ELSE {TRUE}) :
                        IF ok
                        THEN /\ files' = Append(files, [num |-> event_num,
                                                        size |-> event_size,
                                                        name |-> r.name])
                             /\ recv_stats' = CountWritten(recv_stats)
                             /\ UNCHANGED writeFaultsLeft
                        ELSE /\ recv_stats' = CountWriteError(recv_stats)
                             /\ writeFaultsLeft' = writeFaultsLeft - 1
                             /\ UNCHANGED files
                   /\ recv_heap' = IF event_buffer = 0 THEN recv_heap
                                   ELSE [recv_heap EXCEPT ![event_buffer].tried = @ + 1]
                   /\ mpc' = "free"
                   /\ UNCHANGED <<exit_status, reassembler>>
    /\ persistsAfterStop' = IF keep_receiving THEN persistsAfterStop
                            ELSE persistsAfterStop + 1
    /\ UNCHANGED <<inputVars, consoleVars, etVars, seqVars, wire, spawnIdx, joinIdx,
                   segmenter, success_count, failure_count, send_stats,
                   reported_buffers, global_buffer_id, workerVars, heap, segVars,
                   histVars, signalled, lostProduced, keep_receiving, recv_result,
                   event_buffer, event_size, event_num, lostEvents, success,
                   lostQueue, lastCall, callsMade, pollsAfterStop, pattern,
                   dalitz, encoded, dest, et_event, actor_out>>

\* delete[] event_buffer
deleteEventBufferNever(h, k) == h
deleteEventBuffer(h, k) ==
    IF k = 0 THEN h ELSE [h EXCEPT ![k].freed = @ + 1]

\* the end of one iteration: the buffer is freed and the pointer reset
Free ==
    /\ mpc = "free"
    /\ recv_heap' = deleteEventBuffer(recv_heap, event_buffer)
    /\ event_buffer' = 0
    /\ mpc' = "while"
    /\ RecvFrame
    /\ UNCHANGED <<exit_status, keep_receiving, reassembler, recv_result,
                   event_size, event_num, recv_stats, lostEvents, success, files,
                   writeFaultsLeft, lostQueue, lastCall, callsMade, pollsAfterStop,
                   persistsAfterStop>>

\* the final statistics of the loop and reassembler.getStats()
GetStats ==
    /\ mpc = "stats"
    /\ recv_data
    /\ Called("getStats")
    /\ mpc' = "lost"
    /\ RecvFrame
    /\ UNCHANGED <<exit_status, recvVars, pollsAfterStop, persistsAfterStop>>

\* the value receiveEvents returns
ReceiveResult == recv_stats.write_errors = 0

\* one pass of the loop on get_LostEvent: the report is kept, or the queue
\* is empty and receiveEvents returns
GetLostKeepsSeq(res) == [seq |-> res.seq, chan |-> res.chan, frags |-> 0]
GetLostValue(res) == res

GetLost ==
    /\ mpc = "lost"
    /\ Called("get_LostEvent")
    /\ IF lostQueue = <<>>
       THEN /\ success' = ReceiveResult
            /\ mpc' = "dereg"
            /\ UNCHANGED <<lostEvents, lostQueue>>
       ELSE /\ lostEvents' = Append(lostEvents, GetLostValue(Head(lostQueue)))
            /\ lostQueue' = Tail(lostQueue)
            /\ UNCHANGED <<success, mpc>>
    /\ RecvFrame
    /\ UNCHANGED <<exit_status, keep_receiving, reassembler, recv_result,
                   event_buffer, event_size, event_num, recv_stats, recv_heap,
                   files, writeFaultsLeft, pollsAfterStop, persistsAfterStop>>

\* reassembler->deregisterWorker(); an error is only printed
DeregisterWorkerSkipped ==
    /\ mpc = "dereg"
    /\ mpc' = "stop"
    /\ RecvFrame
    /\ UNCHANGED <<exit_status, recvVars, lastCall, callsMade, pollsAfterStop,
                   persistsAfterStop>>

DeregisterWorker ==
    /\ mpc = "dereg"
    /\ Called("deregisterWorker")
    /\ mpc' = "stop"
    /\ RecvFrame
    /\ UNCHANGED <<exit_status, recvVars, pollsAfterStop, persistsAfterStop>>

\* the exit status of a receiver run
RecvExitStatus == IF success THEN 0 ELSE 1

\* reassembler->stopThreads() and the return of main
StopThreads ==
    /\ mpc = "stop"
    /\ Called("stopThreads")
    /\ reassembler' = "stopped"
    /\ exit_status' = RecvExitStatus
    /\ mpc' = "exit"
    /\ RecvFrame
    /\ UNCHANGED <<keep_receiving, recv_result, event_buffer, event_size,
                   event_num, recv_stats, lostEvents, success, recv_heap, files,
                   writeFaultsLeft, lostQueue, pollsAfterStop, persistsAfterStop>>

\* the receive threads of the Reassembler give up an event and queue a report
\* of it: event number, data id, fragments received
Lose ==
    /\ reassembler = "running"
    /\ Len(recv_heap) + Len(lostProduced) < MaxRecv
    /\ \E frags \in FragCounts :
         LET report == [seq |-> Len(lostProduced), chan |-> 0, frags |-> frags]
         IN  /\ lostQueue' = Append(lostQueue, report)
             /\ lostProduced' = Append(lostProduced, report)
    /\ UNCHANGED <<inputVars, libVars, wire, mainVars, global_buffer_id, workerVars, heap,
                   segVars, histVars, keep_receiving, reassembler, recv_result,
                   event_buffer, event_size, event_num, recv_stats, lostEvents,
                   success, recv_heap, files, writeFaultsLeft, signalled,
                   lastCall, callsMade, pollsAfterStop, persistsAfterStop>>

\* signalHandler is installed: a receiver run past its call of signal()
HandlerInstalled == recv_data /\ mpc # "start"

\* SIGINT: once a receiver run has installed signalHandler it clears
\* keep_receiving; before that, and in a run without --recv, which installs
\* no handler, the signal ends the process
Signal ==
    /\ mpc \notin {"exit", "killed"}
    /\ signalled' = TRUE
    /\ IF HandlerInstalled
       THEN /\ keep_receiving' = FALSE
            /\ UNCHANGED <<mpc, pc>>
       ELSE /\ mpc' = "killed"
            /\ pc' = [w \in AllStreams |-> "killed"]
            /\ UNCHANGED keep_receiving
    /\ UNCHANGED <<inputVars, libVars, wire, spawnIdx, joinIdx, segmenter, success_count,
                   failure_count, send_stats, reported_buffers, exit_status,
                   global_buffer_id, i, batch, events_in_batch, current_buffer_id,
                   buffer_size, sent, retry_count, stats, result, heap, segVars,
                   histVars, reassembler, recv_result, event_buffer, event_size,
                   event_num, recv_stats, lostEvents, success, recv_heap, files,
                   writeFaultsLeft, lostQueue, lastCall, callsMade,
                   pollsAfterStop, persistsAfterStop, lostProduced>>

\* the values of --output-pattern in the receiver runs: the default, and
\* e{:}x, whose placeholder makes std::stoi throw
ThrowingPattern == <<"e", "{", ":", "}", "x">>
RecvPatterns == {DefaultPattern, ThrowingPattern}

\* a receiver run
InitRecv ==
    /\ recv_data = TRUE
    /\ send_data = FALSE
    /\ bufsize_mb = 1
    /\ numFiles = 1
    /\ nEntries = [w \in AllStreams |-> 0]
    /\ readable = [w \in AllStreams |-> TRUE]
    /\ stalled = {} /\ congested = {}
    /\ faultsLeft = 0
    /\ writeFaultsLeft \in 0 .. MaxWriteFaults
    /\ InitProgram
    /\ pattern \in RecvPatterns
    /\ format_num = 0
    /\ filename = NoName
    /\ InitCodec /\ InitConsole
    /\ InitNoEt /\ InitNoSeq
    /\ wire = <<>>

NextRecv ==
    \/ RecvInstall \/ RecvStart
    \/ LoopTest \/ Poll \/ RecvReturn \/ Check \/ Persist \/ Free
    \/ GetStats \/ GetLost \/ DeregisterWorker \/ StopThreads
    \/ Lose \/ Signal

SpecRecv == InitRecv /\ [][NextRecv]_vars

\* the steps of the receiver's own thread: each returns in bounded time,
\* recvEvent within its timeout of 1000 ms
RecvThread ==
    \/ RecvInstall \/ RecvStart
    \/ LoopTest \/ Poll \/ RecvReturn \/ Check \/ Persist \/ Free
    \/ GetStats \/ GetLost \/ DeregisterWorker \/ StopThreads

SpecRecvLive == SpecRecv /\ WF_vars(RecvThread)

\* a run in either mode, which an interrupt signal may reach
InitProcess ==
    /\ recv_data \in BOOLEAN
    /\ send_data \in (IF recv_data THEN {FALSE} ELSE BOOLEAN)
    /\ bufsize_mb = 1
    /\ numFiles \in (IF recv_data THEN {1} ELSE 1 .. MaxFiles)
    /\ nEntries \in [AllStreams -> 0 .. SignalEntries]
    /\ SumTo(nEntries, MaxFiles - 1) <= SignalEntries
    /\ \A w \in AllStreams : (recv_data \/ w >= numFiles) => nEntries[w] = 0
    /\ readable = [w \in AllStreams |-> TRUE]
    /\ stalled = {} /\ congested = {}
    /\ faultsLeft = 0
    /\ writeFaultsLeft = 0
    /\ InitProgram
    /\ pattern \in (IF recv_data THEN RecvPatterns ELSE {<<>>})
    /\ format_num = 0
    /\ filename = NoName
    /\ InitCodec /\ InitConsole
    /\ InitNoEt /\ InitNoSeq
    /\ wire = <<>>

NextProcess == Next \/ NextRecv

SpecProcess == InitProcess /\ [][NextProcess]_vars

\* ------------------------------------------- the calls of formatFilename
\* one call of formatFilename
FormatCall ==
    /\ ~filename.called
    /\ LET r == formatFilename(pattern, format_num)
       IN  filename' = [called |-> TRUE, threw |-> r.threw, name |-> r.name]
    /\ UNCHANGED <<inputVars, mainVars, global_buffer_id, workerVars, heap,
                   segVars, histVars, recvVars, recvHistVars, consoleVars, wire,
                   etVars, seqVars,
                   pattern, format_num, dalitz, encoded, dest, et_event, actor_out>>

InitFormat ==
    /\ pattern \in Patterns
    /\ format_num \in 0 .. MaxFormatNum
    /\ filename = NoName

\* ---------------------------------------------------------- the record codec
\* the four-vectors of the particles, and the DalitzEvents made of them
FourVectors == { [E |-> 1, Px |-> 2, Py |-> 3, Pz |-> 4],
                 [E |-> 8, Px |-> 7, Py |-> 6, Pz |-> 5] }
DalitzEvents == [pi_plus : FourVectors, pi_minus : FourVectors,
                 gamma1 : FourVectors, gamma2 : FourVectors]

\* serializeEvent: dest[0] .. dest[15]
serializeEvent(ev) ==
    << ev.pi_plus.E, ev.pi_plus.Px, ev.pi_plus.Py, ev.pi_plus.Pz,
       ev.pi_minus.E, ev.pi_minus.Px, ev.pi_minus.Py, ev.pi_minus.Pz,
       ev.gamma1.E, ev.gamma1.Px, ev.gamma1.Py, ev.gamma1.Pz,
       ev.gamma2.E, ev.gamma2.Px, ev.gamma2.Py, ev.gamma2.Pz >>

\* appendEventToVector, double by double: the sixteen push_back calls
pushEventDoubles(ev, v) ==
    v \o << ev.pi_plus.E, ev.pi_plus.Px, ev.pi_plus.Py, ev.pi_plus.Pz >>
      \o << ev.pi_minus.E, ev.pi_minus.Px, ev.pi_minus.Py, ev.pi_minus.Pz >>
      \o << ev.gamma1.E, ev.gamma1.Px, ev.gamma1.Py, ev.gamma1.Pz >>
      \o << ev.gamma2.E, ev.gamma2.Px, ev.gamma2.Py, ev.gamma2.Pz >>

\* the actor of ersap_processor_actor.cpp
EXPECTED_SIZE == 16 * SizeofDouble

\* the four-vectors the actor prints from doubles[0] .. doubles[15]
FourVectorsReadSwapped(doubles) ==
    [pi_plus |-> [E |-> doubles[1], Px |-> doubles[2], Py |-> doubles[3], Pz |-> doubles[4]],
     pi_minus |-> [E |-> doubles[5], Px |-> doubles[6], Py |-> doubles[7], Pz |-> doubles[8]],
     gamma1 |-> [E |-> doubles[13], Px |-> doubles[14], Py |-> doubles[15], Pz |-> doubles[16]],
     gamma2 |-> [E |-> doubles[9], Px |-> doubles[10], Py |-> doubles[11], Pz |-> doubles[12]]]
FourVectorsRead(doubles) ==
    [pi_plus |-> [E |-> doubles[1], Px |-> doubles[2], Py |-> doubles[3], Pz |-> doubles[4]],
     pi_minus |-> [E |-> doubles[5], Px |-> doubles[6], Py |-> doubles[7], Pz |-> doubles[8]],
     gamma1 |-> [E |-> doubles[9], Px |-> doubles[10], Py |-> doubles[11], Pz |-> doubles[12]],
     gamma2 |-> [E |-> doubles[13], Px |-> doubles[14], Py |-> doubles[15], Pz |-> doubles[16]]]

\* if (data_len < EXPECTED_SIZE)
TooShort(data_len) == data_len < EXPECTED_SIZE

\* the lengths, in bytes, of the ET events the actor is handed
PayloadLengths == {0, 8, 120, 127, 128, 129, 136, 256, 384}

\* one iteration of the sender's loop: the event is made from the entry
\* read and appended to the batch
AppendEvent ==
    /\ ~et_event.put
    /\ Len(encoded) < MaxBatchEvents * DoublesPerEvent
    /\ \E ev \in DalitzEvents :
         /\ dalitz' = ev
         /\ encoded' = pushEventDoubles(ev, encoded)
    /\ UNCHANGED <<inputVars, mainVars, global_buffer_id, workerVars, heap,
                   segVars, histVars, recvVars, recvHistVars, consoleVars, wire,
                   etVars, seqVars,
                   pattern, format_num, filename, dest, et_event, actor_out>>

\* serializeEvent on the event last read
Serialize ==
    /\ encoded # <<>>
    /\ dest # serializeEvent(dalitz)
    /\ dest' = serializeEvent(dalitz)
    /\ UNCHANGED <<inputVars, mainVars, global_buffer_id, workerVars, heap,
                   segVars, histVars, recvVars, recvHistVars, consoleVars, wire,
                   etVars, seqVars,
                   pattern, format_num, filename, dalitz, encoded, et_event,
                   actor_out>>

\* an ET event reaches the actor's station: the batch, or a piece of it
EtEventPut ==
    /\ ~et_event.put
    /\ \E n \in PayloadLengths :
         /\ n <= Len(encoded) * SizeofDouble
         /\ et_event' = [put |-> TRUE, length |-> n,
                         data |-> SubSeq(encoded, 1, n \div SizeofDouble)]
    /\ UNCHANGED <<inputVars, mainVars, global_buffer_id, workerVars, heap,
                   segVars, histVars, recvVars, recvHistVars, consoleVars, wire,
                   etVars, seqVars,
                   pattern, format_num, filename, dalitz, encoded, dest,
                   actor_out>>

\* one iteration of the actor's loop on the event et_event_get returned
ActorGet ==
    /\ et_event.put
    /\ actor_out.kind = "none"
    /\ actor_out' = IF TooShort(et_event.length)
                    THEN [kind |-> "short", record |-> NoDalitzEvent]
                    ELSE [kind |-> "record",
                          record |-> FourVectorsRead(et_event.data)]
    /\ UNCHANGED <<inputVars, mainVars, global_buffer_id, workerVars, heap,
                   segVars, histVars, recvVars, recvHistVars, consoleVars, wire,
                   etVars, seqVars,
                   pattern, format_num, filename, dalitz, encoded, dest,
                   et_event>>

\* --------------------------------------------------------------- the console
\* where a thread is in its code
MainPos == <<mpc, spawnIdx, joinIdx>>
WorkerPos(w) == <<pc[w], i[w]>>

\* main() writes to std::cout or std::cerr before it initializes the
\* Segmenter (when sending: if (args.send_data)), before every std::async,
\* before the first futures[i].get(), after a get() that returned false, and
\* before the sleep that precedes getSendStats (when there is a Segmenter),
\* and with the final statistics and the summary
MainWriteDue ==
    /\ printedAt[MainThread] # MainPos
    /\ IF mpc = "join"
       THEN IF joinIdx = 0 THEN TRUE ELSE result[joinIdx - 1] = "false"
       ELSE IF mpc = "start"
       THEN send_data
       ELSE IF mpc = "stats"
       THEN segmenter
       ELSE mpc \in {"spawn", "summary"}

\* the progress lines of processRootFile
PROGRESS_BATCHES == 10
PROGRESS_ENTRIES == 500000

\* the iteration the worker has just ended handed its batch on, and
\* stats.total_batches_sent % 10 == 0 after its addBatch
BatchProgressDue(w) ==
    /\ send_data /\ segmenter
    /\ events_in_batch[w] = 0 \/ i[w] = nEntries[w]
    /\ stats[w].total_batches_sent % PROGRESS_BATCHES = 0

\* (i + 1) % 500000 == 0 in the iteration the worker has just ended
ReadProgressDue(w) == i[w] % PROGRESS_ENTRIES = 0

\* the times processRootFile takes cout_mutex where it is: three calls of
\* thread_print once the tree is open (the entries, the batch size, the
\* start of the loop); at the end of an iteration of its loop one for each
\* progress line it has to write; and before it returns one for the error
\* message, or one for the line of thread_print, one for the sample when an
\* event was read and one for the completion lines when it sent
WorkerWrites(w) ==
    IF pc[w] = "loop"
    THEN IF i[w] = 0 THEN 3
         ELSE (IF BatchProgressDue(w) THEN 1 ELSE 0)
              + (IF ReadProgressDue(w) THEN 1 ELSE 0)
    ELSE IF pc[w] = "done"
    THEN IF result[w] = "true"
         THEN 1 + (IF nEntries[w] > 0 THEN 1 ELSE 0)
                + (IF send_data /\ segmenter THEN 1 ELSE 0)
         ELSE 1
    ELSE 0

\* the writes the worker has made where it is
WrittenHere(w) ==
    IF Len(printedAt[w]) = 3 /\ SubSeq(printedAt[w], 1, 2) = WorkerPos(w)
    THEN printedAt[w][3] ELSE 0

\* processRootFile has a write to make before it goes on
WorkerWriteDue(w) == WrittenHere(w) < WorkerWrites(w)

\* std::lock_guard<std::mutex> lock(cout_mutex), and the write begins
WorkerLock(w) ==
    /\ WorkerWriteDue(w)
    /\ w \notin writers
    /\ cout_mutex = Unlocked
    /\ cout_mutex' = w
    /\ writers' = writers \cup {w}
    /\ UNCHANGED <<inputVars, mainVars, global_buffer_id, workerVars, heap,
                   segVars, histVars, recvVars, recvHistVars, unitVars, wire,
                   etVars, seqVars,
                   printedAt>>

\* the write is done and the lock_guard goes out of scope
WorkerUnlock(w) ==
    /\ w \in writers
    /\ cout_mutex' = Unlocked
    /\ writers' = writers \ {w}
    /\ printedAt' = [printedAt EXCEPT ![w] =
                         Append(WorkerPos(w), WrittenHere(w) + 1)]
    /\ UNCHANGED <<inputVars, mainVars, global_buffer_id, workerVars, heap,
                   segVars, histVars, recvVars, recvHistVars, unitVars, wire,
                   etVars, seqVars>>

\* main() begins a write: it takes no lock
MainWrite ==
    /\ ~recv_data
    /\ MainWriteDue
    /\ MainThread \notin writers
    /\ writers' = writers \cup {MainThread}
    /\ UNCHANGED <<inputVars, mainVars, global_buffer_id, workerVars, heap,
                   segVars, histVars, recvVars, recvHistVars, unitVars, wire,
                   etVars, seqVars,
                   cout_mutex, printedAt>>

MainWriteEnd ==
    /\ MainThread \in writers
    /\ writers' = writers \ {MainThread}
    /\ printedAt' = [printedAt EXCEPT ![MainThread] = MainPos]
    /\ UNCHANGED <<inputVars, mainVars, global_buffer_id, workerVars, heap,
                   segVars, histVars, recvVars, recvHistVars, unitVars, wire,
                   etVars, seqVars,
                   cout_mutex>>

\* a step of processRootFile between its writes
ConsoleWorker(w) ==
    /\ w \notin writers
    /\ ~WorkerWriteDue(w)
    /\ Worker(w)

\* a step of main() between its writes; get() returns when the worker has
\* returned, its last write included
ConsoleMain ==
    /\ MainThread \notin writers
    /\ ~MainWriteDue
    /\ mpc = "join" => (joinIdx \notin writers /\ ~WorkerWriteDue(joinIdx))
    /\ (MainStart \/ MainSpawn \/ MainJoin \/ MainStats \/ MainReturn)

\* a sender run with its console writes
InitConsoleRun ==
    /\ InitSender
    /\ send_data \in BOOLEAN
    /\ bufsize_mb = 1
    /\ numFiles \in 1 .. MaxFiles
    /\ nEntries \in [AllStreams -> 0 .. ProgressEntries]
    /\ readable \in [AllStreams -> BOOLEAN]
    /\ \A w \in AllStreams : w >= numFiles => nEntries[w] = 0 /\ readable[w]
    /\ IF SumTo(nEntries, MaxFiles - 1) <= ConsoleEntries THEN TRUE
       ELSE /\ numFiles = 1 /\ send_data
            /\ nEntries[0] = ProgressEntries /\ readable[0]
    /\ stalled = {} /\ congested = {}
    /\ faultsLeft = 0
    /\ InitCommon

NextConsole ==
    \/ ConsoleMain
    \/ MainWrite \/ MainWriteEnd
    \/ \E w \in AllStreams : ConsoleWorker(w)
    \/ \E w \in AllStreams : WorkerLock(w)
    \/ \E w \in AllStreams : WorkerUnlock(w)
    \/ Transmit

SpecConsole == InitConsoleRun /\ [][NextConsole]_vars

\* ------------------------------------------------- the loopback of the test
\* the send thread of a sender whose buffers reach a receiver: a buffer it
\* transmitted is on the network
TransmitLoopback ==
    /\ SendThread
    /\ wire' = IF msgCnt' > msgCnt THEN Append(wire, Head(sendQueue)) ELSE wire

\* the receiving process of the test has left the loop of receiveEvents:
\* getStats is its first call after the loop
LoopLeft == "getStats" \in callsMade

\* the receiving process of the test: one iteration of the loop of
\* receiveEvents on an event the Reassembler delivers, the buffer id of the
\* sender being its event number.  With keep_receiving cleared the iteration
\* is the one in progress: the call of recvEvent begun before the signal
\* still delivers an event, which is counted and written
LoopbackReceive ==
    /\ wire # <<>>
    /\ ~LoopLeft
    /\ IF keep_receiving THEN TRUE ELSE persistsAfterStop = 0
    /\ LET b == Head(wire)
       IN  /\ files' = Append(files, [num |-> b.id, size |-> b.size])
           /\ recv_stats' = CountWritten(CountReceived(recv_stats, b.size))
    /\ wire' = Tail(wire)
    /\ persistsAfterStop' = IF keep_receiving THEN persistsAfterStop
                            ELSE persistsAfterStop + 1
    /\ UNCHANGED <<inputVars, libVars, mainVars, global_buffer_id, workerVars,
                   heap, segVars, histVars, signalled, lastCall, callsMade,
                   pollsAfterStop, lostProduced, keep_receiving,
                   reassembler, recv_result, event_buffer, event_size, event_num,
                   lostEvents, success, recv_heap, writeFaultsLeft, lostQueue>>

\* the receiving process leaves the loop at the test that finds
\* keep_receiving cleared, and calls getStats
LoopbackLeave ==
    /\ ~keep_receiving
    /\ ~LoopLeft
    /\ Called("getStats")
    /\ UNCHANGED <<inputVars, libVars, wire, mainVars, global_buffer_id,
                   workerVars, heap, segVars, histVars, recvVars, signalled,
                   pollsAfterStop, persistsAfterStop, lostProduced>>

\* the script stops the receiver once the sender has exited: when it counts
\* the files it expects, or when --timeout seconds have gone by, whichever
\* comes first (kill -INT); signalHandler of the receiver clears
\* keep_receiving
LoopbackStop ==
    /\ mpc = "exit"
    /\ keep_receiving
    /\ keep_receiving' = FALSE
    /\ signalled' = TRUE
    /\ UNCHANGED <<inputVars, libVars, wire, mainVars, global_buffer_id,
                   workerVars, heap, segVars, histVars, reassembler, recv_result,
                   event_buffer, event_size, event_num, recv_stats, lostEvents,
                   success, recv_heap, files, writeFaultsLeft, lostQueue,
                   lastCall, callsMade, pollsAfterStop, persistsAfterStop,
                   lostProduced>>

\* the sender of the test on several files, with a Segmenter that never
\* refuses a buffer and never fails to transmit one
InitLoopback ==
    /\ InitSender
    /\ send_data = TRUE
    /\ bufsize_mb = 1
    /\ numFiles \in 2 .. MaxFiles
    /\ nEntries \in [AllStreams -> 0 .. LoopbackEntries]
    /\ SumTo(nEntries, MaxFiles - 1) <= LoopbackEntries
    /\ readable \in [AllStreams -> BOOLEAN]
    /\ \A w \in AllStreams : w >= numFiles => nEntries[w] = 0 /\ readable[w]
    /\ stalled = {} /\ congested = {}
    /\ faultsLeft = 0
    /\ InitCommon

NextLoopback ==
    \/ MainStart \/ MainSpawn \/ MainJoin \/ MainStats \/ MainReturn
    \/ \E w \in AllStreams : Worker(w)
    \/ TransmitLoopback
    \/ LoopbackReceive
    \/ LoopbackStop
    \/ LoopbackLeave

\* the send thread and the receiver keep running: a buffer in the send
\* queue of a running sender is transmitted, a buffer on the network is
\* delivered and written
SpecLoopback ==
    /\ InitLoopback /\ [][NextLoopback]_vars
    /\ WF_vars(TransmitLoopback)
    /\ WF_vars(LoopbackReceive)

\* ------------------------------------------- the names of the record files
\* a receiver run with one of the output patterns
InitNames ==
    /\ recv_data = TRUE
    /\ send_data = FALSE
    /\ bufsize_mb = 1
    /\ numFiles = 1
    /\ nEntries = [w \in AllStreams |-> 0]
    /\ readable = [w \in AllStreams |-> TRUE]
    /\ stalled = {} /\ congested = {}
    /\ faultsLeft = 0
    /\ writeFaultsLeft \in 0 .. MaxWriteFaults
    /\ InitProgram
    /\ pattern \in Patterns
    /\ format_num = 0
    /\ filename = NoName
    /\ InitCodec /\ InitConsole
    /\ InitNoEt /\ InitNoSeq
    /\ wire = <<>>

NextNames ==
    \/ RecvInstall \/ RecvStart
    \/ LoopTest \/ Poll \/ RecvReturn \/ Check \/ Persist \/ Free
    \/ GetStats \/ GetLost \/ DeregisterWorker \/ StopThreads
    \/ Signal

SpecNames == InitNames /\ [][NextNames]_vars

\* ------------------------------------------------------- the ET receiver
\* ersap_et_receiver.cpp: the receive loop of e2sar_root.cpp with writeToET
\* in the place of the file write, between initializeET and cleanupET.  The
\* ET library is an external collaborator: whether a call succeeds, the
\* event size of the system and the attachment id et_station_attach stores
\* are its choices.

\* --et-event-size and the event size of the ET system, in the unit of
\* EventSizes
EtEventSizes == {1, 2}
\* the values of et_att_id the library may store
AttachmentIds == {0, 1}

\* initializeET: et_open, et_system_geteventsize, the size check and
\* et_station_attach; every failure after et_open closes the system
initializeET(e, lib, req_size, open_ok, size_ok, sys_size, att_ok, att_id) ==
    IF ~open_ok THEN [ok |-> FALSE, et |-> e, lib |-> lib]
    ELSE LET opened == [e EXCEPT !.system = 1]
             lib1 == [lib EXCEPT !.open = @ + 1]
             closed == [ok |-> FALSE, et |-> opened,
                        lib |-> [lib1 EXCEPT !.close = @ + 1]]
         IN  IF ~size_ok THEN closed
             ELSE IF req_size > sys_size THEN closed
             ELSE IF ~att_ok THEN closed
             ELSE [ok |-> TRUE,
                   et |-> [opened EXCEPT !.attachment = att_id,
                                         !.event_size = req_size,
                                         !.initialized = TRUE],
                   lib |-> [lib1 EXCEPT !.attach = @ + 1]]

\* cleanupET
cleanupET(e, lib) ==
    IF e.initialized
    THEN [et |-> [e EXCEPT !.initialized = FALSE],
          lib |-> [lib EXCEPT !.detach = IF e.attachment # 0 THEN @ + 1 ELSE @,
                              !.close = IF e.system # 0 THEN @ + 1 ELSE @]]
    ELSE [et |-> e, lib |-> lib]

\* writeToET: the two refusals, et_event_new, the copy, et_event_put; an
\* event et_event_new gave is put once, and the put succeeds or does not
writeToETAnySize(e, evs, size, new_ok, put_ok) ==
    IF ~e.initialized THEN [ok |-> FALSE, events |-> evs]
    ELSE IF ~new_ok THEN [ok |-> FALSE, events |-> evs]
    ELSE [ok |-> put_ok,
          events |-> Append(evs, [length |-> size, puts |-> 1,
                                 stored |-> put_ok])]
writeToET(e, evs, size, new_ok, put_ok) ==
    IF ~e.initialized THEN [ok |-> FALSE, events |-> evs]
    ELSE IF size > e.event_size THEN [ok |-> FALSE, events |-> evs]
    ELSE IF ~new_ok THEN [ok |-> FALSE, events |-> evs]
    ELSE [ok |-> put_ok,
          events |-> Append(evs, [length |-> size, puts |-> 1,
                                 stored |-> put_ok])]

\* what the ET receiver leaves alone
EtFrame ==
    UNCHANGED <<inputVars, unitVars, consoleVars, seqVars, wire, spawnIdx,
                joinIdx, segmenter, success_count, failure_count, send_stats,
                reported_buffers, global_buffer_id, workerVars, heap, segVars,
                histVars, signalled, lostProduced, apc, keep_running, pe,
                et_event_size>>

\* signal(SIGINT, signalHandler), after parseArgs
EtInstall ==
    /\ mpc = "start"
    /\ mpc' = "et"
    /\ EtFrame
    /\ UNCHANGED <<exit_status, recvVars, et, etlib, etEvents, lastCall,
                   callsMade, pollsAfterStop, persistsAfterStop>>

\* initializeET and its failure
EtStart ==
    /\ mpc = "et"
    /\ \E open_ok, size_ok, att_ok \in BOOLEAN :
       \E sys_size \in EtEventSizes, att_id \in AttachmentIds :
         LET r == initializeET(et, etlib, et_event_size, open_ok, size_ok,
                               sys_size, att_ok, att_id)
         IN  /\ et' = r.et
             /\ etlib' = r.lib
             /\ IF r.ok
                THEN mpc' = "reas" /\ exit_status' = exit_status
                ELSE mpc' = "exit" /\ exit_status' = 1
    /\ EtFrame
    /\ UNCHANGED <<recvVars, etEvents, lastCall, callsMade, pollsAfterStop,
                   persistsAfterStop>>

\* initializeReassembler; when it fails, cleanupET and return 1
EtRecvStart ==
    /\ mpc = "reas"
    /\ \E outcome \in StartOutcomes :
         IF outcome = "started"
         THEN /\ reassembler' = "running"
              /\ Called("openAndStart")
              /\ mpc' = "while"
              /\ UNCHANGED <<exit_status, et, etlib>>
         ELSE /\ et' = cleanupET(et, etlib).et
              /\ etlib' = cleanupET(et, etlib).lib
              /\ mpc' = "exit"
              /\ exit_status' = 1
              /\ UNCHANGED reassembler
              /\ IF outcome = "open_failed"
                 THEN Called("openAndStart")
                 ELSE UNCHANGED <<lastCall, callsMade>>
    /\ EtFrame
    /\ UNCHANGED <<keep_receiving, recv_result, event_buffer, event_size,
                   event_num, recv_stats, lostEvents, success, recv_heap, files,
                   writeFaultsLeft, lostQueue, etEvents, pollsAfterStop,
                   persistsAfterStop>>

\* writeToET(et, event_buffer, event_size) and the counting of its outcome
EtPersist ==
    /\ mpc = "write"
    /\ \E new_ok, put_ok \in BOOLEAN :
         LET r == writeToET(et, etEvents, event_size, new_ok, put_ok)
         IN  /\ etEvents' = r.events
             /\ recv_stats' = IF r.ok THEN CountWritten(recv_stats)
                              ELSE CountWriteError(recv_stats)
    /\ recv_heap' = IF event_buffer = 0 THEN recv_heap
                    ELSE [recv_heap EXCEPT ![event_buffer].tried = @ + 1]
    /\ persistsAfterStop' = IF keep_receiving THEN persistsAfterStop
                            ELSE persistsAfterStop + 1
    /\ mpc' = "free"
    /\ EtFrame
    /\ UNCHANGED <<exit_status, keep_receiving, reassembler, recv_result,
                   event_buffer, event_size, event_num, lostEvents, success,
                   files, writeFaultsLeft, lostQueue, lastCall, callsMade,
                   pollsAfterStop, et, etlib>>

\* reassembler->stopThreads()
EtStopThreads ==
    /\ mpc = "stop"
    /\ Called("stopThreads")
    /\ reassembler' = "stopped"
    /\ mpc' = "cleanup"
    /\ EtFrame
    /\ UNCHANGED <<exit_status, keep_receiving, recv_result, event_buffer,
                   event_size, event_num, recv_stats, lostEvents, success,
                   recv_heap, files, writeFaultsLeft, lostQueue, pollsAfterStop,
                   persistsAfterStop, et, etlib, etEvents>>

\* cleanupET(et) and the return of main
EtCleanup ==
    /\ mpc = "cleanup"
    /\ et' = cleanupET(et, etlib).et
    /\ etlib' = cleanupET(et, etlib).lib
    /\ exit_status' = RecvExitStatus
    /\ mpc' = "exit"
    /\ EtFrame
    /\ UNCHANGED <<recvVars, etEvents, lastCall, callsMade, pollsAfterStop,
                   persistsAfterStop>>

\* a run of the ET receiver
InitEtRecv ==
    /\ recv_data = TRUE
    /\ send_data = FALSE
    /\ bufsize_mb = 1
    /\ numFiles = 1
    /\ nEntries = [w \in AllStreams |-> 0]
    /\ readable = [w \in AllStreams |-> TRUE]
    /\ stalled = {} /\ congested = {}
    /\ faultsLeft = 0
    /\ writeFaultsLeft = 0
    /\ InitProgram
    /\ InitNoFormat /\ InitCodec /\ InitConsole
    /\ et = NoET /\ etlib = NoEtCalls /\ etEvents = <<>>
    /\ et_event_size \in EtEventSizes
    /\ apc = "none" /\ keep_running = TRUE /\ pe = 0
    /\ InitNoSeq
    /\ wire = <<>>

NextEtRecv ==
    \/ EtInstall \/ EtStart \/ EtRecvStart
    \/ LoopTest \/ Poll \/ RecvReturn \/ Check \/ EtPersist \/ Free
    \/ GetStats \/ GetLost \/ DeregisterWorker \/ EtStopThreads \/ EtCleanup
    \/ Lose \/ Signal

SpecEtRecv == InitEtRecv /\ [][NextEtRecv]_vars

\* ------------------------------------------------------------- the actor
\* main() of ersap_processor_actor.cpp: it opens the ET system, attaches to
\* its station, and gets, reads and puts back one event after the other
\* until keep_running is false or a call fails.  When an event reaches the
\* station, and what the ET calls return, are choices of the ET system.

\* the payload of an ET event of n bytes: the doubles of serialized events
ActorRecord == [pi_plus |-> [E |-> 1, Px |-> 2, Py |-> 3, Pz |-> 4],
                pi_minus |-> [E |-> 8, Px |-> 7, Py |-> 6, Pz |-> 5],
                gamma1 |-> [E |-> 1, Px |-> 2, Py |-> 3, Pz |-> 4],
                gamma2 |-> [E |-> 8, Px |-> 7, Py |-> 6, Pz |-> 5]]
ActorPayload(n) ==
    SubSeq(serializeEvent(ActorRecord) \o serializeEvent(ActorRecord)
               \o serializeEvent(ActorRecord),
           1, n \div SizeofDouble)

\* what the actor leaves alone
ActorFrame ==
    UNCHANGED <<inputVars, consoleVars, seqVars, wire, mpc, spawnIdx, joinIdx,
                segmenter, success_count, failure_count, send_stats,
                reported_buffers, global_buffer_id, workerVars, heap, segVars,
                histVars, recvVars, recvHistVars, pattern, format_num, filename,
                dalitz, encoded, dest, et, et_event_size>>

\* std::signal(SIGINT, signalHandler), once the arguments are read
ActorInstall ==
    /\ apc = "start"
    /\ apc' = "open"
    /\ ActorFrame
    /\ UNCHANGED <<exit_status, keep_running, pe, etlib, etEvents, et_event,
                   actor_out>>

\* from et_open to et_station_attach: every failure after et_open closes
\* the ET system and returns 1
ActorStart ==
    /\ apc = "open"
    /\ \E open_ok, config_ok, id_ok, att_ok \in BOOLEAN :
       \E created \in {"ok", "exists", "error"} :
         IF ~open_ok
         THEN /\ apc' = "exit" /\ exit_status' = 1
              /\ UNCHANGED etlib
         ELSE IF ~config_ok \/ created = "error"
                 \/ (created = "exists" /\ ~id_ok) \/ ~att_ok
         THEN /\ apc' = "exit" /\ exit_status' = 1
              /\ etlib' = [etlib EXCEPT !.open = @ + 1, !.close = @ + 1]
         ELSE /\ apc' = "test"
              /\ exit_status' = exit_status
              /\ etlib' = [etlib EXCEPT !.open = @ + 1, !.attach = @ + 1]
    /\ ActorFrame
    /\ UNCHANGED <<keep_running, pe, etEvents, et_event, actor_out>>

\* while (keep_running)
ActorTest ==
    /\ apc = "test"
    /\ apc' = IF keep_running THEN "get" ELSE "cleanup"
    /\ ActorFrame
    /\ UNCHANGED <<exit_status, keep_running, pe, etlib, etEvents, et_event,
                   actor_out>>

\* et_event_get(et_sys, et_att, &pe, ET_SLEEP, NULL) returns: an event has
\* reached the station, or the call failed (ET_ERROR_DEAD, ET_ERROR_WAKEUP,
\* another error) and the loop is left
ActorGetReturn ==
    /\ apc = "get"
    /\ \/ /\ Len(etEvents) < MaxActorEvents
          /\ \E n \in PayloadLengths :
               /\ et_event' = [put |-> TRUE, length |-> n, data |-> ActorPayload(n)]
               /\ etEvents' = Append(etEvents, [length |-> n, puts |-> 0,
                                                stored |-> FALSE])
          /\ pe' = Len(etEvents) + 1
          /\ apc' = "handle"
       \/ /\ apc' = "cleanup"
          /\ UNCHANGED <<et_event, etEvents, pe>>
    /\ ActorFrame
    /\ UNCHANGED <<exit_status, keep_running, etlib, actor_out>>

\* et_event_put(et_sys, et_att, pe): the event is offered back once
PutEventIfRead(evs, k, put_ok) ==
    IF TooShort(evs[k].length) THEN evs
    ELSE [evs EXCEPT ![k].puts = @ + 1, ![k].stored = put_ok]
PutEvent(evs, k, put_ok) ==
    [evs EXCEPT ![k].puts = @ + 1, ![k].stored = put_ok]

\* the rest of the iteration: a short payload is put back unread, any other
\* is printed as four four-vectors and put back; a failed put leaves the loop
ActorHandle ==
    /\ apc = "handle"
    /\ actor_out' = IF TooShort(et_event.length)
                    THEN [kind |-> "short", record |-> NoDalitzEvent]
                    ELSE [kind |-> "record",
                          record |-> FourVectorsRead(et_event.data)]
    /\ \E put_ok \in BOOLEAN :
         /\ etEvents' = PutEvent(etEvents, pe, put_ok)
         /\ apc' = IF put_ok THEN "test" ELSE "cleanup"
    /\ pe' = 0
    /\ ActorFrame
    /\ UNCHANGED <<exit_status, keep_running, etlib, et_event>>

\* et_station_detach; a failure is only printed
ActorDetach ==
    /\ apc = "cleanup"
    /\ etlib' = [etlib EXCEPT !.detach = @ + 1]
    /\ apc' = "close"
    /\ ActorFrame
    /\ UNCHANGED <<exit_status, keep_running, pe, etEvents, et_event, actor_out>>

\* et_close, and return 0
ActorClose ==
    /\ apc = "close"
    /\ etlib' = [etlib EXCEPT !.close = @ + 1]
    /\ exit_status' = 0
    /\ apc' = "exit"
    /\ ActorFrame
    /\ UNCHANGED <<keep_running, pe, etEvents, et_event, actor_out>>

\* SIGINT: signalHandler, once installed, clears keep_running; before that
\* the signal ends the process
ActorSignal ==
    /\ apc \notin {"none", "exit", "killed"}
    /\ IF apc = "start"
       THEN /\ apc' = "killed"
            /\ UNCHANGED keep_running
       ELSE /\ keep_running
            /\ keep_running' = FALSE
            /\ UNCHANGED apc
    /\ ActorFrame
    /\ UNCHANGED <<exit_status, pe, etlib, etEvents, et_event, actor_out>>

\* a run of the actor
InitActor ==
    /\ recv_data = FALSE /\ send_data = FALSE
    /\ bufsize_mb = 1 /\ numFiles = 1
    /\ nEntries = [w \in AllStreams |-> 0]
    /\ readable = [w \in AllStreams |-> TRUE]
    /\ stalled = {} /\ congested = {}
    /\ faultsLeft = 0 /\ writeFaultsLeft = 0
    /\ InitProgram
    /\ InitNoFormat /\ InitCodec /\ InitConsole
    /\ et = NoET /\ et_event_size = 0
    /\ etlib = NoEtCalls /\ etEvents = <<>>
    /\ apc = "start" /\ keep_running = TRUE /\ pe = 0
    /\ InitNoSeq
    /\ wire = <<>>

\* the steps of the actor's thread that return on their own
ActorThread ==
    \/ ActorInstall \/ ActorStart \/ ActorTest \/ ActorHandle \/ ActorDetach
    \/ ActorClose

NextActor == ActorThread \/ ActorGetReturn \/ ActorSignal

SpecActor == InitActor /\ [][NextActor]_vars

\* the actor's thread keeps running; no event need ever reach the station
SpecActorLive == SpecActor /\ WF_vars(ActorThread)

\* ---------------------------------------------------- the sequential sender
\* the earlier program: main() calls processRootFile for one file after the
\* other; processRootFile has a Segmenter of its own and a local counter
\* buffer_id, and at the end waits until the Segmenter has sent the frames
\* it expects.  The Segmenter cuts a buffer into frames of at most
\* getMaxPldLen() bytes and counts a frame it sent in msgCnt, a send that
\* failed in errCnt.

\* the values of segmenter->getMaxPldLen()
PayloadLens == {96, 128}

\* the stream of the one file of the run
SeqStream == 0

\* what the sequential sender leaves alone
SeqFrame ==
    UNCHANGED <<inputVars, unitVars, consoleVars, etVars, wire, recvVars,
                recvHistVars, spawnIdx, joinIdx, reported_buffers,
                global_buffer_id, current_buffer_id, result, stalled,
                congested, offers, max_payload>>

\* the frames the Segmenter makes of a buffer
FramesOf(size) == (size + max_payload - 1) \div max_payload

\* main() calls processRootFile
SeqMainCall ==
    /\ mpc = "start"
    /\ mpc' = "call"
    /\ pc' = [pc EXCEPT ![SeqStream] = "open"]
    /\ SeqFrame
    /\ UNCHANGED <<segmenter, success_count, failure_count, send_stats,
                   exit_status, i, batch, events_in_batch, buffer_size, sent,
                   retry_count, stats, heap, sendQueue, msgCnt, errCnt,
                   faultsLeft, flushed, ids, buffer_id, expected_frames,
                   headFrames, seq_result>>

\* processRootFile has returned: the file is counted, main() returns
SeqMainReturn ==
    /\ mpc = "call"
    /\ pc[SeqStream] = "done"
    /\ IF seq_result = "true"
       THEN /\ success_count' = success_count + 1
            /\ failure_count' = failure_count
            /\ exit_status' = 0
       ELSE /\ failure_count' = failure_count + 1
            /\ success_count' = success_count
            /\ exit_status' = 1
    /\ mpc' = "exit"
    /\ SeqFrame
    /\ UNCHANGED <<segmenter, send_stats, pc, i, batch, events_in_batch,
                   buffer_size, sent, retry_count, stats, heap, sendQueue,
                   msgCnt, errCnt, faultsLeft, flushed, ids, buffer_id,
                   expected_frames, headFrames, seq_result>>

\* TFile::Open and file->Get<TTree>, initializeSegmenter when sending, and
\* the allocation of the first batch
SeqOpen ==
    /\ pc[SeqStream] = "open"
    /\ \E ok \in (IF send_data /\ readable[SeqStream] THEN BOOLEAN ELSE {TRUE}) :
         IF ~readable[SeqStream] \/ ~ok
         THEN /\ pc' = [pc EXCEPT ![SeqStream] = "done"]
              /\ seq_result' = "false"
              /\ UNCHANGED <<heap, batch, segmenter>>
         ELSE /\ segmenter' = send_data
              /\ heap' = [heap EXCEPT ![SeqStream] = Append(@, NewBatch)]
              /\ batch' = [batch EXCEPT ![SeqStream] = Len(heap[SeqStream]) + 1]
              /\ pc' = [pc EXCEPT ![SeqStream] = "loop"]
              /\ UNCHANGED seq_result
    /\ buffer_id' = 0
    /\ events_in_batch' = [events_in_batch EXCEPT ![SeqStream] = 0]
    /\ i' = [i EXCEPT ![SeqStream] = 0]
    /\ SeqFrame
    /\ UNCHANGED <<mpc, success_count, failure_count, send_stats, exit_status,
                   buffer_size, sent, retry_count, stats, sendQueue, msgCnt,
                   errCnt, faultsLeft, flushed, ids, expected_frames, headFrames>>

\* size_t expected_frames = (stats.total_bytes_sent + max_payload - 1) / max_payload
ExpectedFramesOneMore(bytes) == bytes \div max_payload + 1
ExpectedFrames(bytes) == (bytes + max_payload - 1) \div max_payload

\* the for loop's test and one iteration up to the first addToSendQueue
\* call; after the last entry, the expected frame count when sending, else
\* the return
SeqRead ==
    /\ pc[SeqStream] = "loop"
    /\ LET w == SeqStream
       IN  IF i[w] >= nEntries[w]
           THEN /\ IF send_data /\ segmenter
                   THEN /\ expected_frames' =
                               ExpectedFrames(stats[w].total_bytes_sent)
                        /\ pc' = [pc EXCEPT ![w] = "waitloop"]
                        /\ UNCHANGED seq_result
                   ELSE /\ pc' = [pc EXCEPT ![w] = "done"]
                        /\ seq_result' = "true"
                        /\ UNCHANGED expected_frames
                /\ UNCHANGED <<heap, batch, events_in_batch, i, flushed,
                               buffer_size, sent, retry_count>>
           ELSE LET filled == [heap EXCEPT ![w][batch[w]].data =
                                   appendEventToVector(i[w], @)]
                    events == events_in_batch[w] + 1
                IN  /\ UNCHANGED <<seq_result, expected_frames>>
                    /\ IF FlushDue(events, i[w], nEntries[w])
                       THEN /\ flushed' = [flushed EXCEPT ![w] =
                                    Append(@, filled[w][batch[w]].data)]
                            /\ IF send_data
                               THEN /\ heap' = filled
                                    /\ events_in_batch' =
                                           [events_in_batch EXCEPT ![w] = events]
                                    /\ buffer_size' = [buffer_size EXCEPT ![w] =
                                           BufferSize(filled[w][batch[w]].data)]
                                    /\ sent' = [sent EXCEPT ![w] = FALSE]
                                    /\ retry_count' = [retry_count EXCEPT ![w] = 0]
                                    /\ pc' = [pc EXCEPT ![w] = "send"]
                                    /\ UNCHANGED <<batch, i>>
                               ELSE /\ NextIteration(w,
                                          DeleteBatch(filled, w, batch[w]),
                                          events)
                                    /\ UNCHANGED <<buffer_size, sent, retry_count>>
                       ELSE /\ heap' = filled
                            /\ events_in_batch' =
                                   [events_in_batch EXCEPT ![w] = events]
                            /\ i' = [i EXCEPT ![w] = @ + 1]
                            /\ UNCHANGED <<pc, batch, flushed, buffer_size, sent,
                                           retry_count>>
    /\ SeqFrame
    /\ UNCHANGED <<mpc, segmenter, success_count, failure_count, send_stats,
                   exit_status, stats, sendQueue, msgCnt, errCnt, faultsLeft,
                   ids, buffer_id, headFrames>>

\* the arguments of one addToSendQueue call of the sequential sender
SeqEnqueueArgs ==
    [w |-> SeqStream, k |-> batch[SeqStream], id |-> buffer_id,
     size |-> buffer_size[SeqStream],
     data |-> heap[SeqStream][batch[SeqStream]].data]

\* one pass of the retry loop
SeqEnqueue ==
    /\ pc[SeqStream] = "send"
    /\ RetryAllowed(SeqStream)
    /\ \E reply \in Replies(SeqStream) :
         /\ faultsLeft' = IF reply = "ok" THEN faultsLeft ELSE faultsLeft - 1
         /\ sendQueue' = IF reply = "ok" THEN Append(sendQueue, SeqEnqueueArgs)
                          ELSE sendQueue
         /\ ids' = IF reply = "ok"
                   THEN [ids EXCEPT ![SeqStream] = Append(@, buffer_id)]
                   ELSE ids
         /\ IF ~has_error(reply)
            THEN /\ sent' = [sent EXCEPT ![SeqStream] = TRUE]
                 /\ UNCHANGED <<retry_count, heap, pc, seq_result, segmenter>>
            ELSE IF IsQueueFull(reply)
            THEN /\ retry_count' = [retry_count EXCEPT ![SeqStream] = @ + 1]
                 /\ UNCHANGED <<sent, heap, pc, seq_result, segmenter>>
            ELSE /\ heap' = DeleteBatch(heap, SeqStream, batch[SeqStream])
                 /\ pc' = [pc EXCEPT ![SeqStream] = "done"]
                 /\ seq_result' = "false"
                 /\ segmenter' = FALSE
                 /\ UNCHANGED <<sent, retry_count>>
    /\ SeqFrame
    /\ UNCHANGED <<mpc, success_count, failure_count, send_stats, exit_status,
                   i, batch, events_in_batch, buffer_size, stats, msgCnt, errCnt,
                   flushed, buffer_id, expected_frames, headFrames>>

\* buffer_id++, after the retry loop
NextBufferId(id, ok) == IF ok THEN id + 1 ELSE id

\* after the retry loop: give up, or count the batch and go on
SeqAfterRetries ==
    /\ pc[SeqStream] = "send"
    /\ ~RetryAllowed(SeqStream)
    /\ buffer_id' = NextBufferId(buffer_id, sent[SeqStream])
    /\ IF ~sent[SeqStream]
       THEN /\ heap' = DeleteBatch(heap, SeqStream, batch[SeqStream])
            /\ pc' = [pc EXCEPT ![SeqStream] = "done"]
            /\ seq_result' = "false"
            /\ segmenter' = FALSE
            /\ UNCHANGED <<stats, batch, events_in_batch, i>>
       ELSE /\ stats' = [stats EXCEPT ![SeqStream] =
                            addBatch(@, events_in_batch[SeqStream], 1,
                                     buffer_size[SeqStream])]
            /\ NextIteration(SeqStream, heap, events_in_batch[SeqStream])
            /\ UNCHANGED <<seq_result, segmenter>>
    /\ SeqFrame
    /\ UNCHANGED <<mpc, success_count, failure_count, send_stats, exit_status,
                   buffer_size, sent, retry_count, sendQueue, msgCnt, errCnt,
                   faultsLeft, flushed, ids, expected_frames, headFrames>>

\* the test that ends the wait loop; until it holds the loop sleeps and
\* reads the counters again
WaitOver == msgCnt >= expected_frames \/ errCnt > 0

SeqWait ==
    /\ pc[SeqStream] = "waitloop"
    /\ WaitOver
    /\ pc' = [pc EXCEPT ![SeqStream] = "final"]
    /\ SeqFrame
    /\ UNCHANGED <<mpc, segmenter, success_count, failure_count, send_stats,
                   exit_status, i, batch, events_in_batch, buffer_size, sent,
                   retry_count, stats, heap, sendQueue, msgCnt, errCnt,
                   faultsLeft, flushed, ids, buffer_id, expected_frames,
                   headFrames, seq_result>>

\* the value returned after the wait loop
SeqReturnValue(errors) == IF errors > 0 THEN "false" ELSE "true"

\* the second getSendStats, after the wait loop
SeqFinalStats ==
    /\ pc[SeqStream] = "final"
    /\ send_stats' = [msgCnt |-> msgCnt, errCnt |-> errCnt]
    /\ pc' = [pc EXCEPT ![SeqStream] = "report"]
    /\ SeqFrame
    /\ UNCHANGED <<mpc, segmenter, success_count, failure_count, exit_status, i,
                   batch, events_in_batch, buffer_size, sent, retry_count, stats,
                   heap, sendQueue, msgCnt, errCnt, faultsLeft, flushed, ids,
                   buffer_id, expected_frames, headFrames, seq_result>>

\* the report and the return; the Segmenter is destroyed with the frame of
\* the call
SeqReturn ==
    /\ pc[SeqStream] = "report"
    /\ seq_result' = SeqReturnValue(send_stats.errCnt)
    /\ segmenter' = FALSE
    /\ pc' = [pc EXCEPT ![SeqStream] = "done"]
    /\ SeqFrame
    /\ UNCHANGED <<mpc, success_count, failure_count, send_stats, exit_status, i,
                   batch, events_in_batch, buffer_size, sent, retry_count, stats,
                   heap, sendQueue, msgCnt, errCnt, faultsLeft, flushed, ids,
                   buffer_id, expected_frames, headFrames>>

\* the send thread of the Segmenter sends the next frame of the oldest
\* queued buffer, or fails to and drops the buffer; a buffer it is done
\* with goes to the release callback
SeqTransmit ==
    /\ segmenter
    /\ sendQueue # <<>>
    /\ LET b == Head(sendQueue)
       IN  \E ok \in (IF faultsLeft > 0 THEN BOOLEAN ELSE {TRUE}) :
             IF ok
             THEN /\ msgCnt' = msgCnt + 1
                  /\ UNCHANGED <<errCnt, faultsLeft>>
                  /\ IF headFrames + 1 >= FramesOf(b.size)
                     THEN /\ sendQueue' = Tail(sendQueue)
                          /\ heap' = freeBuffer(heap, b.w, b.k)
                          /\ headFrames' = 0
                     ELSE /\ headFrames' = headFrames + 1
                          /\ UNCHANGED <<sendQueue, heap>>
             ELSE /\ errCnt' = errCnt + 1
                  /\ faultsLeft' = faultsLeft - 1
                  /\ sendQueue' = Tail(sendQueue)
                  /\ heap' = freeBuffer(heap, b.w, b.k)
                  /\ headFrames' = 0
                  /\ UNCHANGED msgCnt
    /\ SeqFrame
    /\ UNCHANGED <<mpc, segmenter, success_count, failure_count, send_stats,
                   exit_status, pc, i, batch, events_in_batch, buffer_size, sent,
                   retry_count, stats, flushed, ids, buffer_id, expected_frames,
                   seq_result>>

\* a run of the sequential sender on one file
InitSeq ==
    /\ InitSender
    /\ send_data \in BOOLEAN
    /\ bufsize_mb \in 1 .. MaxBufsizeMb
    /\ numFiles = 1
    /\ nEntries \in [AllStreams -> 0 .. MaxSeqEntries]
    /\ readable \in [AllStreams -> BOOLEAN]
    /\ \A w \in AllStreams : w >= numFiles => nEntries[w] = 0 /\ readable[w]
    /\ stalled = {} /\ congested = {}
    /\ faultsLeft \in 0 .. MaxFaults
    /\ InitProgram
    /\ InitNoFormat /\ InitCodec /\ InitConsole
    /\ InitNoEt
    /\ buffer_id = 0 /\ expected_frames = 0 /\ headFrames = 0
    /\ seq_result = "running"
    /\ max_payload \in PayloadLens
    /\ wire = <<>>

\* the steps of processRootFile and of main()
SeqThread ==
    \/ SeqMainCall \/ SeqOpen \/ SeqRead \/ SeqEnqueue \/ SeqAfterRetries
    \/ SeqWait \/ SeqFinalStats \/ SeqReturn \/ SeqMainReturn

NextSeq == SeqThread \/ SeqTransmit

\* the program's thread keeps running, and the Segmenter sends, or fails to
\* send, every frame of a buffer it accepted
SpecSeq ==
    /\ InitSeq /\ [][NextSeq]_vars
    /\ WF_vars(SeqThread)
    /\ WF_vars(SeqTransmit)

\* ------------------------------------- specifications of the pure functions
\* no run of main(): the functions are called on their own
InitNoRun ==
    /\ recv_data = TRUE /\ send_data = FALSE
    /\ bufsize_mb = 1 /\ numFiles = 1
    /\ nEntries = [w \in AllStreams |-> 0]
    /\ readable = [w \in AllStreams |-> TRUE]
    /\ stalled = {} /\ congested = {}
    /\ faultsLeft = 0 /\ writeFaultsLeft = 0
    /\ InitProgram
    /\ InitConsole
    /\ InitNoEt /\ InitNoSeq
    /\ wire = <<>>

NextFormat == FormatCall

InitFormatCalls == InitNoRun /\ InitFormat /\ InitCodec

SpecFormat == InitFormatCalls /\ [][NextFormat]_vars

NextCodec == AppendEvent \/ Serialize \/ EtEventPut \/ ActorGet

InitCodecCalls == InitNoRun /\ InitNoFormat /\ InitCodec

SpecCodec == InitCodecCalls /\ [][NextCodec]_vars

\* ============================================================ properties
CeilDiv(n, c) == (n + c - 1) \div c

\* the records 0 .. n-1 in read order
Records(n) == [j \in 1 .. n |-> j - 1]

\* the data the calls made for the j-th batch of stream w handed over
OfferedData(w, j) == {a.data : a \in offers[w][j].args}

Succeeded(w) == pc[w] = "done" /\ result[w] = "true"

\* C1: a stream of N records with batch capacity C >= 1 that returns success
\* has produced exactly ceil(N / C) batches; with any capacity (0 is let
\* through without --send) the batches hold the records
\* 0 .. N-1 once each in read order, and in send mode each batch was offered
\* to the Segmenter and accepted exactly once with that content
C1_BatchCount ==
    \A w \in Streams :
        Succeeded(w) =>
            /\ BATCH_SIZE_EVENTS >= 1 =>
                 Len(flushed[w]) = CeilDiv(nEntries[w], BATCH_SIZE_EVENTS)
            /\ Concat(flushed[w]) = Records(nEntries[w])
            /\ send_data =>
                 /\ Len(offers[w]) = Len(flushed[w])
                 /\ \A j \in 1 .. Len(offers[w]) :
                        /\ offers[w][j].accepted = 1
                        /\ OfferedData(w, j) = {flushed[w][j]}

C1_Witness ==
    /\ send_data /\ Succeeded(0)
    /\ nEntries[0] = 5 /\ BATCH_SIZE_EVENTS = 2
    /\ Len(offers[0]) = 3
    /\ \E j \in 1 .. 3 : offers[0][j].fulls > 0

\* C2: every batch holds k whole records with 1 <= k <= C, is handed over
\* with byte length 128 * k, has exactly C records unless it is the last of
\* the stream, and the last has N - C * (ceil(N / C) - 1); a stream with
\* N < C records makes one batch of N records; C = 2 and N = 5 make
\* <<2, 2, 1>>.  The capacity is at least 1 whenever a batch is handed over:
\* 0 is let through only without --send
C2_BatchShape ==
    \A w \in Streams :
        LET n == nEntries[w]
            c == BATCH_SIZE_EVENTS
            last == Len(flushed[w])
        IN  /\ \A j \in 1 .. last :
                LET k == Len(flushed[w][j])
                IN  /\ 1 <= k
                    /\ c >= 1 =>
                         /\ k <= c
                         /\ j < last => k = c
                         /\ (Succeeded(w) /\ j = last) =>
                                k = n - c * (CeilDiv(n, c) - 1)
                    /\ j <= Len(offers[w]) =>
                         \A a \in offers[w][j].args :
                             a.size = EVENT_SIZE * k /\ Len(a.data) = k
            /\ (Succeeded(w) /\ 0 < n /\ n < c) => flushed[w] = <<Records(n)>>
            /\ (Succeeded(w) /\ n = 5 /\ c = 2) =>
                 [j \in 1 .. last |-> Len(flushed[w][j])] = <<2, 2, 1>>

C2_Witness ==
    /\ send_data /\ Succeeded(0)
    /\ nEntries[0] = 5 /\ BATCH_SIZE_EVENTS = 2
    /\ [j \in 1 .. Len(offers[0]) |-> Len(CHOOSE d \in OfferedData(0, j) : TRUE)]
           = <<2, 2, 1>>
    /\ stats[0].total_bytes_sent = 5 * 128

C2_WitnessShort ==
    /\ send_data /\ Succeeded(0)
    /\ nEntries[0] = 1 /\ BATCH_SIZE_EVENTS = 2
    /\ Len(offers[0]) = 1 /\ offers[0][1].accepted = 1

\* the batches stream w allocated
Batches(w) == 1 .. Len(heap[w])

\* the batch (its place in the heap) the calls of an offer handed over
OfferedBatch(o) == CHOOSE k \in {a.k : a \in o.args} : TRUE

\* C3: when the run has ended and the Segmenter has transmitted all it
\* accepted, every batch a worker allocated has been released exactly once:
\* by the release callback alone if it was accepted, else by the worker
C3_ReleasedOnce ==
    /\ \A w \in Streams : \A k \in Batches(w) :
           heap[w][k].byWorker + heap[w][k].byCallback <= 1
    /\ \A w \in Streams : \A j \in 1 .. Len(offers[w]) :
           offers[w][j].accepted >= 1 =>
               heap[w][OfferedBatch(offers[w][j])].byWorker = 0
    /\ (mpc = "exit" /\ sendQueue = <<>>) =>
           \A w \in Streams : \A k \in Batches(w) :
               heap[w][k].byWorker + heap[w][k].byCallback = 1

\* the same, of the streams that hold at least one record
C3_ReleasedOnceNonEmpty ==
    /\ \A w \in Streams : \A k \in Batches(w) :
           heap[w][k].byWorker + heap[w][k].byCallback <= 1
    /\ (mpc = "exit" /\ sendQueue = <<>>) =>
           \A w \in Streams : \A k \in Batches(w) :
               nEntries[w] > 0 => heap[w][k].byWorker + heap[w][k].byCallback = 1

\* C4: a batch the Segmenter accepted after K queue-full answers, K < 10000,
\* was offered in exactly K + 1 calls that all carried the same buffer, size
\* and id, was accepted once, and is not released by the worker; the stream
\* goes on: it ends after an accepted batch only when that batch was the
\* last of its records, and then with success
C4_RetryThenAccept ==
    \A w \in Streams : \A j \in 1 .. Len(offers[w]) :
        LET o == offers[w][j]
        IN  o.accepted >= 1 =>
              /\ o.accepted = 1
              /\ o.fulls < MAX_RETRIES
              /\ o.calls = o.fulls + 1
              /\ Cardinality(o.args) = 1
              /\ heap[w][OfferedBatch(o)].byWorker = 0
              /\ (pc[w] = "done" /\ j = Len(offers[w])) =>
                    /\ result[w] = "true"
                    /\ Concat(flushed[w]) = Records(nEntries[w])

C4_Witness ==
    /\ Len(offers[0]) = 2
    /\ offers[0][1].fulls = MAX_RETRIES - 1
    /\ offers[0][1].calls = MAX_RETRIES
    /\ offers[0][1].accepted = 1
    /\ offers[0][2].accepted = 1
    /\ Succeeded(0)

\* C5: no batch is offered more than 10000 times; a batch that got 10000
\* queue-full answers is never accepted, is the last batch the stream reads
\* and offers, and the worker returns failure having released it itself
C5_RetryExhaustion ==
    \A w \in Streams : \A j \in 1 .. Len(offers[w]) :
        LET o == offers[w][j]
        IN  /\ o.calls <= MAX_RETRIES
            /\ o.fulls = MAX_RETRIES =>
                 /\ o.accepted = 0
                 /\ j = Len(offers[w])
                 /\ Len(flushed[w]) = j
                 /\ Len(Concat(flushed[w])) = i[w] + 1
                 /\ pc[w] \in {"send", "done"}
                 /\ pc[w] = "done" =>
                      /\ result[w] = "false"
                      /\ heap[w][OfferedBatch(o)].byWorker = 1
                      /\ heap[w][OfferedBatch(o)].byCallback = 0

C5_Witness ==
    /\ pc[0] = "done" /\ result[0] = "false"
    /\ nEntries[0] = 2 /\ i[0] = 0
    /\ Len(offers[0]) = 1
    /\ offers[0][1].fulls = MAX_RETRIES
    /\ offers[0][1].calls = MAX_RETRIES
    /\ heap[0][1].byWorker = 1

\* C6: a call answered with an error other than queue-full is the last call
\* of the stream: the batch is not offered again and not accepted, the worker
\* has released it and has returned failure
C6_NonTransientError ==
    \A w \in Streams : \A j \in 1 .. Len(offers[w]) :
        LET o == offers[w][j]
        IN  o.errs >= 1 =>
              /\ o.errs = 1
              /\ o.calls = o.fulls + 1
              /\ o.accepted = 0
              /\ j = Len(offers[w])
              /\ pc[w] = "done" /\ result[w] = "false"
              /\ heap[w][OfferedBatch(o)].byWorker = 1
              /\ heap[w][OfferedBatch(o)].byCallback = 0

C6_Witness ==
    /\ Len(offers[0]) = 2
    /\ offers[0][1].accepted = 1
    /\ offers[0][2].errs = 1
    /\ pc[0] = "done" /\ result[0] = "false"

\* the buffer ids drawn in the run, with the stream and batch they went to
Drawn == UNION {{<<w, j>> : j \in 1 .. Len(ids[w])} : w \in Streams}

\* C7: in a sender run the buffer ids drawn by all the streams are pairwise
\* distinct and are exactly 0 .. n-1, n the value of global_buffer_id; their
\* number is the sum over the streams of the batches each handed on, and
\* every call made for a batch carries the id drawn for it
C7_UniqueIds ==
    (send_data /\ segmenter) =>
    /\ \A p, q \in Drawn : p # q => ids[p[1]][p[2]] # ids[q[1]][q[2]]
    /\ {ids[p[1]][p[2]] : p \in Drawn} = 0 .. (global_buffer_id - 1)
    /\ Cardinality({ids[p[1]][p[2]] : p \in Drawn})
           = SumTo([w \in AllStreams |-> Len(flushed[w])], MaxFiles - 1)
    /\ \A w \in Streams :
         /\ Len(ids[w]) = Len(flushed[w])
         /\ pc[w] # "send" => Len(offers[w]) = Len(ids[w])
         /\ \A j \in 1 .. Len(offers[w]) :
                \A a \in offers[w][j].args : a.id = ids[w][j]

C7_Witness ==
    /\ numFiles = 2
    /\ \A w \in Streams : pc[w] = "done" /\ Len(offers[w]) >= 1
    /\ global_buffer_id = 3
    /\ ids[0] = <<0, 2>> /\ ids[1] = <<1>>

\* C8: a stream offers its batches in read order: the batches offered so far
\* hold the records 0, 1, 2, ... in that order, a batch is offered only after
\* every earlier batch of the stream was accepted, and the stream's buffer
\* ids increase strictly
C8_ReadOrder ==
    \A w \in Streams :
        /\ \A j \in 1 .. Len(offers[w]) :
               /\ Cardinality(OfferedData(w, j)) = 1
               /\ j < Len(offers[w]) => offers[w][j].accepted = 1
        /\ LET all == Concat([j \in 1 .. Len(offers[w]) |->
                                 CHOOSE d \in OfferedData(w, j) : TRUE])
           IN  all = Records(Len(all))
        /\ \A j \in 1 .. Len(ids[w]) - 1 : ids[w][j] < ids[w][j + 1]
        /\ \A p, q \in 1 .. Len(sendQueue) :
               (p < q /\ sendQueue[p].w = w /\ sendQueue[q].w = w) =>
                   /\ sendQueue[p].id < sendQueue[q].id
                   /\ sendQueue[p].data[1] < sendQueue[q].data[1]

C8_Witness ==
    /\ numFiles = 2
    /\ Len(offers[0]) = 2
    /\ offers[0][1].accepted = 1 /\ offers[0][2].accepted = 1
    /\ ids[0] = <<0, 2>> /\ ids[1] = <<1>>
    /\ Len(sendQueue) = 3

\* C9: main returns 0 exactly when every stream worker returned success and
\* the final statistics of the Segmenter show no send error
C9_ExitStatus ==
    (mpc = "exit" /\ spawnIdx = numFiles) =>
        (exit_status = 0 <=>
            /\ \A w \in Streams : result[w] = "true"
            /\ send_stats.errCnt = 0)

\* a stream no fault has hit: its file is readable, the Segmenter is not
\* stalled for it and has answered none of its calls with an error
Healthy(w) ==
    /\ readable[w]
    /\ w \notin stalled
    /\ \A j \in 1 .. Len(offers[w]) :
           offers[w][j].errs = 0 /\ offers[w][j].fulls < MAX_RETRIES

Failed(w) == pc[w] = "done" /\ result[w] = "false"

\* C10: whatever becomes of the other streams, a stream no fault has hit
\* can take its next step, and ends with success having had all its
\* ceil(N / C) batches accepted; main counts every stream once, as a success
\* exactly if it returned success, and returns 1 if any stream failed
C10_FailureIsolated ==
    /\ \A w \in Streams :
         /\ (Healthy(w) /\ pc[w] \in {"open", "loop", "send"}) =>
                ENABLED (Open(w) \/ Read(w) \/ Enqueue(w) \/ AfterRetries(w))
         /\ (Healthy(w) /\ pc[w] = "done") =>
                /\ result[w] = "true"
                /\ Len(offers[w]) = CeilDiv(nEntries[w], BATCH_SIZE_EVENTS)
                /\ \A j \in 1 .. Len(offers[w]) : offers[w][j].accepted = 1
    /\ (mpc = "exit" /\ spawnIdx = numFiles) =>
         /\ success_count + failure_count = numFiles
         /\ success_count = Cardinality({w \in Streams : Succeeded(w)})
         /\ failure_count = Cardinality({w \in Streams : Failed(w)})
         /\ (\E w \in Streams : Failed(w)) => exit_status = 1

C10_Witness ==
    /\ mpc = "exit"
    /\ Failed(0) /\ Len(offers[0]) = 1 /\ offers[0][1].fulls = MAX_RETRIES
    /\ Succeeded(1) /\ Len(offers[1]) = 1 /\ offers[1][1].accepted = 1
    /\ success_count = 1 /\ failure_count = 1 /\ exit_status = 1

\* C11: a run whose Segmenter (send mode) or Reassembler (receive mode)
\* could not be initialised spawns no stream worker, draws no buffer id,
\* polls for no record, and exits with status 1
C11_FatalStartup ==
    /\ (~recv_data /\ send_data /\ ~segmenter) =>
          /\ mpc \in {"start", "exit", "killed"}
          /\ mpc = "exit" => exit_status = 1
          /\ spawnIdx = 0
          /\ \A w \in AllStreams : pc[w] \in {"unspawned", "killed"}
          /\ global_buffer_id = 0
          /\ \A w \in AllStreams : ids[w] = <<>> /\ flushed[w] = <<>>
    /\ (recv_data /\ reassembler = "null") =>
          /\ mpc \in {"start", "init", "exit", "killed"}
          /\ mpc = "exit" => exit_status = 1
          /\ "recvEvent" \notin callsMade
          /\ recv_stats = NoRecvStats /\ recv_heap = <<>> /\ files = <<>>

C11_Witness ==
    /\ ~recv_data /\ send_data /\ ~segmenter /\ numFiles = 2
    /\ nEntries[0] = 1
    /\ mpc = "exit" /\ exit_status = 1

C11_WitnessRecv ==
    recv_data /\ reassembler = "null" /\ mpc = "exit" /\ exit_status = 1

\* C12: main reads the Segmenter's send statistics and global_buffer_id
\* only when every worker has returned, and after that read no buffer id is
\* drawn and addToSendQueue is not called
C12_StatsAfterJoin ==
    /\ [](reported_buffers # RUNNING => \A w \in Streams : pc[w] = "done")
    /\ [][reported_buffers # RUNNING =>
            /\ global_buffer_id' = global_buffer_id
            /\ ids' = ids
            /\ offers' = offers]_vars

C12_Witness ==
    /\ reported_buffers = 2
    /\ numFiles = 2
    /\ ids[0] # <<>> /\ ids[1] # <<>>
    /\ \A w \in Streams : pc[w] = "done"

\* C13: when main computes the final statistics, the send queue of the
\* Segmenter is empty and every batch it accepted has been released by
\* the callback
C13_DrainedAtStats ==
    reported_buffers # RUNNING =>
        /\ sendQueue = <<>>
        /\ \A w \in Streams : \A j \in 1 .. Len(offers[w]) :
              offers[w][j].accepted = 1 =>
                \A a \in offers[w][j].args : heap[w][a.k].byCallback = 1

\* C14: a poll that times out or returns an error changes no counter,
\* writes no file and frees no buffer, and the loop goes back to its test;
\* the loop is left only from its test, with keep_receiving cleared
C14_TimeoutIsNoFailure ==
    /\ [][(mpc = "check" /\ recv_result \in {"none", "error"}) =>
            /\ mpc' \in {"check", "while"}
            /\ recv_stats' = recv_stats
            /\ files' = files
            /\ recv_heap' = recv_heap
            /\ exit_status' = exit_status]_vars
    /\ [][(mpc \in LoopStates /\ mpc' \notin LoopStates) =>
            (mpc = "while" /\ ~keep_receiving)]_vars
    /\ [](mpc \in {"wait", "check", "write", "free"} =>
            "recvEvent" \in callsMade)

\* the loop went through a timeout and an error, polled again and received
C14_Witness ==
    /\ mpc = "check" /\ recv_result = "error"
    /\ keep_receiving
    /\ Len(recv_heap) = 1 /\ recv_heap[1].freed = 1
    /\ recv_stats.events_received = 1

\* the buffers of recv_heap the loop has tried to persist
Tried == {k \in 1 .. Len(recv_heap) : recv_heap[k].tried > 0}

\* C15: a write that fails adds exactly one to write_errors and nothing to
\* events_written, the iteration goes on to free the buffer and test the
\* flag again, and every record delivered later is written like any other
C15_WriteFailureCounted ==
    /\ [][(mpc = "write" /\ mpc' = "free") =>
            IF files' = files
            THEN /\ recv_stats'.write_errors = recv_stats.write_errors + 1
                 /\ recv_stats'.events_written = recv_stats.events_written
            ELSE /\ recv_stats'.write_errors = recv_stats.write_errors
                 /\ recv_stats'.events_written = recv_stats.events_written + 1
                 /\ files' = Append(files, [num |-> event_num,
                                            size |-> event_size,
                                            name |-> filename'.name])]_vars
    /\ [][(mpc = "free" /\ mpc' # mpc) => mpc' = "while"]_vars
    /\ [](/\ recv_stats.events_written = Len(files)
          /\ recv_stats.events_written + recv_stats.write_errors
                = Cardinality(Tried)
          /\ recv_stats.write_errors <= MaxWriteFaults
          /\ mpc \notin LoopStates => Tried = 1 .. Len(recv_heap))

\* the write of the first record failed and the second record was written
C15_Witness ==
    /\ Len(recv_heap) = 2
    /\ recv_heap[1].num = 0 /\ recv_heap[2].num = 1
    /\ recv_stats.write_errors = 1 /\ recv_stats.events_written = 1
    /\ files = <<[num |-> 1, size |-> recv_heap[2].size,
                  name |-> formatFilename(pattern, 1).name]>>
    /\ mpc = "exit"

\* C16: every buffer the Reassembler delivered is freed exactly once, by
\* the step that follows the write of its record, whether the write failed
\* or not; a poll without a record frees nothing; the only buffer not yet
\* freed is the one of the iteration in progress, so none is left when the
\* loop has stopped
C16_BufferFreedOnce ==
    /\ [](\A k \in 1 .. Len(recv_heap) :
            /\ recv_heap[k].freed <= 1
            /\ recv_heap[k].tried <= 1
            /\ recv_heap[k].freed = 1 => recv_heap[k].tried = 1
            /\ recv_heap[k].freed = 0 =>
                 (k = event_buffer /\ mpc \in {"check", "write", "free"}))
    /\ [](mpc \notin LoopStates =>
            \A k \in 1 .. Len(recv_heap) : recv_heap[k].freed = 1)
    /\ [][\A k \in 1 .. Len(recv_heap) :
            recv_heap'[k].freed # recv_heap[k].freed =>
              (mpc = "free" /\ k = event_buffer /\ recv_heap[k].tried = 1)]_vars
    /\ [][(mpc = "check" /\ recv_result # "event") =>
            recv_heap' = recv_heap]_vars

\* the loop stopped after two records, one of them not written
C16_Witness ==
    /\ mpc = "dereg"
    /\ Len(recv_heap) = 2
    /\ recv_stats.write_errors = 1
    /\ \A k \in 1 .. 2 : recv_heap[k].freed = 1 /\ recv_heap[k].tried = 1

\* C17: the flag is read once per iteration, by the loop test.  Once it is
\* cleared, at most the call of recvEvent that follows a test already passed
\* is started and at most one more record is written; a record that call
\* delivers is written and freed like any other; and recvEvent returning
\* within its timeout, the loop stops
C17_CooperativeStop ==
    /\ [](pollsAfterStop <= 1 /\ persistsAfterStop <= 1)
    /\ [][(~keep_receiving /\ mpc = "while") => mpc' \in {"while", "stats"}]_vars
    /\ [](mpc \notin LoopStates =>
            \A k \in 1 .. Len(recv_heap) :
                recv_heap[k].tried = 1 /\ recv_heap[k].freed = 1)
    /\ ((~keep_receiving /\ mpc \in LoopStates) ~> (mpc \notin LoopStates))

\* the flag was cleared during a poll, the poll delivered a record, and the
\* loop wrote and freed it and stopped
C17_Witness ==
    /\ ~keep_receiving
    /\ persistsAfterStop = 1
    /\ Len(recv_heap) = 1 /\ recv_heap[1].freed = 1
    /\ Len(files) = 1
    /\ mpc = "stats"

\* C18: in a run without --recv an interrupt signal that arrives when the
\* workers are spawned clears keep_receiving and the process lives on to
\* stop by itself: a worker
\* that finds the flag cleared at the test of its loop reads no further
\* entry and hands over no further batch
C18_SenderCancellation ==
    /\ []((signalled /\ ~recv_data /\ spawnIdx = numFiles) =>
            (~keep_receiving /\ mpc # "killed"))
    /\ [][\A w \in Streams :
            (~recv_data /\ ~keep_receiving /\ pc[w] = "loop") =>
                (i'[w] = i[w] /\ flushed'[w] = flushed[w] /\ ids'[w] = ids[w])]_vars

\* main is past receiveEvents: the list of lost events is final
ReceiveReturned == recv_data /\ mpc \in {"dereg", "stop", "exit"} /\ reassembler # "null"

\* C19 as stated: the final list holds every report the Reassembler queued
\* during the run, once and in order
C19_AllLostReported ==
    ReceiveReturned => lostEvents = lostProduced

\* C19, amended: the list is only filled after the loop has stopped; every
\* report the Reassembler queued is in the list or still in the queue, once
\* and in order, with event number, data id and fragment count unchanged;
\* and the call of get_LostEvent that finds the queue empty leaves the list
\* holding every report queued until then
C19_LostReportsDrained ==
    /\ [](lostEvents \o lostQueue = lostProduced)
    /\ [](mpc \in LoopStates \cup {"start", "stats"} => lostEvents = <<>>)
    /\ [][(mpc = "lost" /\ mpc' = "dereg") =>
            (lostQueue = <<>> /\ lostEvents' = lostProduced)]_vars
    /\ [][lostEvents' # lostEvents => mpc = "lost"]_vars

\* two reports were drained in the order they were queued
C19_Witness ==
    /\ mpc = "exit"
    /\ Len(lostEvents) = 2
    /\ lostEvents[1].seq = 0 /\ lostEvents[1].frags = 1
    /\ lostEvents[2].seq = 1 /\ lostEvents[2].frags = 0
    /\ lostQueue = <<>>

C21_ExitStatusCountsLoss ==
    (recv_data /\ mpc = "exit" /\ reassembler # "null") =>
        /\ exit_status \in {0, 1}
        /\ exit_status = 0 <=>
              (recv_stats.write_errors = 0 /\ lostEvents = <<>>)

\* the pattern data_{:06d}.bin
DataPattern == <<"d", "a", "t", "a", "_", "{", ":", "0", "6", "d", "}", ".", "b", "i", "n">>

\* C23: for a pattern with one placeholder {:0Wd} the name is the text
\* before the placeholder, the number in decimal padded with zeros on the
\* left to at least W digits, and the text after it: event_{:08d}.dat and 5
\* give event_00000005.dat, data_{:06d}.bin and 42 give data_000042.bin
C23_ZeroPaddedName ==
    /\ (filename.called /\ pattern = DefaultPattern) =>
          /\ ~filename.threw
          /\ filename.name = SubSeq(DefaultPattern, 1, 6)
                               \o Padded("0", 8, format_num)
                               \o SubSeq(DefaultPattern, 13, 16)
    /\ (filename.called /\ pattern = DataPattern) =>
          /\ ~filename.threw
          /\ filename.name = SubSeq(DataPattern, 1, 5)
                               \o Padded("0", 6, format_num)
                               \o SubSeq(DataPattern, 12, 15)

\* C24: the 16 values serializeEvent writes and appendEventToVector pushes
\* for an event are the same, E, Px, Py, Pz of pi+, pi-, gamma1, gamma2 in
\* that order, and the actor reads them back at the same 16 positions:
\* the record it reads from a batch of one event is that event
C24_RoundTrip ==
    /\ \A ev \in DalitzEvents :
          /\ serializeEvent(ev) = pushEventDoubles(ev, <<>>)
          /\ Len(serializeEvent(ev)) = DoublesPerEvent
          /\ FourVectorsRead(serializeEvent(ev)) = ev
    /\ dest # <<>> =>
          \E k \in 1 .. (Len(encoded) \div DoublesPerEvent) :
              dest = SubSeq(encoded, DoublesPerEvent * (k - 1) + 1, DoublesPerEvent * k)
    /\ (actor_out.kind = "record" /\ Len(encoded) = DoublesPerEvent) =>
          actor_out.record = dalitz

\* an event whose particles differ went through a batch of one event
C24_Witness ==
    /\ actor_out.kind = "record"
    /\ Len(encoded) = DoublesPerEvent
    /\ et_event.length = EXPECTED_SIZE
    /\ dalitz.gamma1 # dalitz.gamma2
    /\ dalitz.pi_plus # dalitz.pi_minus
    /\ actor_out.record = dalitz
    /\ dest = encoded

\* C25: an ET event whose length is not exactly 128 bytes, shorter or
\* longer, is refused and never read as a record
C25_ExactLength ==
    /\ actor_out.kind = "record" => et_event.length = EXPECTED_SIZE
    /\ (actor_out.kind # "none" /\ et_event.length # EXPECTED_SIZE) =>
          actor_out.kind = "short"

\* C26: at most one thread is writing to the console, and a thread that is
\* writing while a spawned worker has not been joined holds cout_mutex
C26_ConsoleSerialised ==
    /\ Cardinality(writers) <= 1
    /\ (\E w \in Streams : w >= joinIdx /\ pc[w] # "unspawned") =>
          \A t \in writers : cout_mutex = t

\* the batch k of stream w was accepted by the Segmenter
Accepted(w, k) ==
    \E j \in 1 .. Len(offers[w]) :
        offers[w][j].accepted >= 1 /\ OfferedBatch(offers[w][j]) = k

\* the arguments of the call that handed over the batch stream w sent last
LastArgs(w) == CHOOSE a \in offers[w][Len(offers[w])].args : TRUE

\* C27: a batch the Segmenter accepted is never again appended to,
\* re-offered or deleted by its worker, also when the Segmenter has already
\* released it; the next append goes to a new batch nobody has released; and
\* the statistics are updated with the record count and byte size the
\* worker took before the call
C27_ImmutableAfterHandOff ==
    /\ [](\A w \in Streams : \A k \in Batches(w) :
             Accepted(w, k) => heap[w][k].byWorker = 0)
    /\ [][\A w \in Streams : \A k \in Batches(w) :
             Accepted(w, k) =>
                 /\ heap'[w][k].data = heap[w][k].data
                 /\ heap'[w][k].byWorker = 0
                 /\ \A j \in 1 .. Len(offers[w]) :
                        OfferedBatch(offers[w][j]) = k => offers'[w][j] = offers[w][j]]_vars
    /\ [](\A w \in Streams :
             (pc[w] = "loop" /\ i[w] < nEntries[w]) =>
                 /\ ~Accepted(w, batch[w])
                 /\ heap[w][batch[w]].byWorker + heap[w][batch[w]].byCallback = 0)
    /\ [][\A w \in Streams :
             stats'[w] # stats[w] =>
                 /\ pc[w] = "send" /\ sent[w] /\ Accepted(w, batch[w])
                 /\ stats'[w] = addBatch(stats[w], Len(LastArgs(w).data), 1,
                                         LastArgs(w).size)]_vars

\* the Segmenter released the first batch before the worker came to count
\* it; the worker went on with a second batch
C27_Witness ==
    /\ Len(heap[0]) = 2
    /\ heap[0][1].byCallback = 1 /\ heap[0][1].byWorker = 0
    /\ Len(heap[0][1].data) = 2
    /\ pc[0] = "loop" /\ batch[0] = 2
    /\ heap[0][2].data # <<>>
    /\ stats[0].total_events_processed = 2

\* the batch was released between its acceptance and the statistics update
C27_WitnessReleasedEarly ==
    /\ pc[0] = "send" /\ sent[0]
    /\ heap[0][batch[0]].byCallback = 1
    /\ stats[0].total_batches_sent = 0

\* what processRootFile returned for stream w: 1 for true, 0 for false
Returned(w) == IF pc[w] # "done" THEN RUNNING ELSE IF result[w] = "true" THEN 1 ELSE 0

\* what stream w keeps to itself
Own(w) == <<pc[w], i[w], batch[w], events_in_batch[w], current_buffer_id[w],
            buffer_size[w], sent[w], retry_count[w], stats[w], Returned(w),
            heap[w]>>

\* the steps of the worker of stream w
StepOf(w) == pc'[w] # pc[w] \/ WorkerPos(w)' # WorkerPos(w)
               \/ retry_count'[w] # retry_count[w] \/ sent'[w] # sent[w]

\* C28: a step of one worker leaves every other worker's batch, counters,
\* statistics and result as they were; what it may change besides its own
\* state is the Segmenter and global_buffer_id; and no step of main() or of
\* the send thread changes a worker's counters or statistics
C28_WorkersShareNothingElse ==
    /\ [][\A w \in Streams :
             (pc[w] \in {"open", "loop", "send"} /\ StepOf(w)) =>
                 /\ \A v \in Streams \ {w} :
                        /\ Own(v)' = Own(v)
                        /\ offers'[v] = offers[v] /\ ids'[v] = ids[v]
                        /\ flushed'[v] = flushed[v]
                 /\ UNCHANGED <<mainVars, msgCnt, errCnt>>]_vars
    /\ [][\A w \in Streams :
             (stats'[w] # stats[w] \/ batch'[w] # batch[w]
                \/ events_in_batch'[w] # events_in_batch[w]
                \/ Returned(w)' # Returned(w)) => StepOf(w)]_vars
    /\ [](\A w \in Streams : \A j \in 1 .. Len(offers[w]) :
             \A a \in offers[w][j].args : a.w = w /\ a.k \in Batches(w))

\* both workers are in the middle of their streams
C28_Witness ==
    /\ numFiles = 2
    /\ pc[0] = "send" /\ pc[1] = "send"
    /\ batch[0] = 1 /\ batch[1] = 1
    /\ current_buffer_id[0] # current_buffer_id[1]
    /\ stats[0] = NoStats /\ stats[1] = NoStats

\* the sum of one StreamingStats counter over the streams of the run
BatchesSentByAll ==
    SumTo([w \in AllStreams |-> stats[w].total_batches_sent], numFiles - 1)

\* C29: after the join the totals main() reports are the sums of the
\* workers' StreamingStats counters; main() reports one total of batches,
\* "Total buffers submitted", and none of events or bytes
C29_TotalsAreSums ==
    (mpc = "exit" /\ segmenter /\ reported_buffers # RUNNING) =>
        reported_buffers = BatchesSentByAll

\* the batches of stream w the Segmenter has accepted
AcceptedCount(w) ==
    Cardinality({j \in 1 .. Len(offers[w]) : offers[w][j].accepted >= 1})

\* the records of the batches of stream w the Segmenter has accepted
AcceptedRecords(w) ==
    SumTo([j \in 0 .. (Len(offers[w]) - 1) |->
              IF offers[w][j + 1].accepted >= 1
              THEN Len(CHOOSE d \in OfferedData(w, j + 1) : TRUE) ELSE 0],
          Len(offers[w]) - 1)

\* the worker is between the acceptance of a batch and the addBatch call
\* that counts it
Uncounted(w) == IF pc[w] = "send" /\ sent[w] THEN 1 ELSE 0

\* C30 as stated: in send mode the StreamingStats of a worker satisfy, at
\* every point of its run, total_bytes_sent = 128 * total_events_processed
\* and total_batches_sent = total_buffers_sent = the batches of the stream
\* the Segmenter has accepted; a worker that returns success for N records
\* has counted N events and 128 * N bytes
C30_StatsAtEveryPoint ==
    \A w \in Streams :
        /\ stats[w].total_bytes_sent = EVENT_SIZE * stats[w].total_events_processed
        /\ stats[w].total_batches_sent = stats[w].total_buffers_sent
        /\ stats[w].total_batches_sent = AcceptedCount(w)
        /\ (Succeeded(w) /\ send_data) =>
              /\ stats[w].total_events_processed = nEntries[w]
              /\ stats[w].total_bytes_sent = EVENT_SIZE * nEntries[w]

\* C30, amended: the counters hold the batches accepted and counted so far:
\* between an acceptance and the addBatch call that follows it they are one
\* batch behind, at every other point they equal the accepted batches and
\* their records; a batch that was not accepted adds nothing
C30_StatsCountAccepted ==
    \A w \in Streams :
        /\ stats[w].total_bytes_sent = EVENT_SIZE * stats[w].total_events_processed
        /\ stats[w].total_batches_sent = stats[w].total_buffers_sent
        /\ stats[w].total_batches_sent = AcceptedCount(w) - Uncounted(w)
        /\ Uncounted(w) = 0 => stats[w].total_events_processed = AcceptedRecords(w)
        /\ Uncounted(w) = 1 =>
              stats[w].total_events_processed + events_in_batch[w] = AcceptedRecords(w)
        /\ (Succeeded(w) /\ send_data) =>
              /\ stats[w].total_events_processed = nEntries[w]
              /\ stats[w].total_bytes_sent = EVENT_SIZE * nEntries[w]

\* a stream of five records in batches of two succeeded: three batches
\* were counted
C30_Witness ==
    /\ send_data /\ nEntries[0] = 5 /\ BATCH_SIZE_EVENTS = 2
    /\ Succeeded(0)
    /\ stats[0] = [total_events_processed |-> 5, total_batches_sent |-> 3,
                   total_buffers_sent |-> 3, total_bytes_sent |-> 640]

\* a refused batch left the counters where they were
C30_WitnessRefused ==
    /\ send_data /\ pc[0] = "done" /\ result[0] = "false"
    /\ Len(offers[0]) = 2 /\ offers[0][2].accepted = 0
    /\ stats[0].total_batches_sent = 1
    /\ stats[0].total_events_processed = 2

\* the names of the files the receiver of the loopback test has written
FileNames ==
    {formatFilename(DefaultPattern, files[k].num).name : k \in 1 .. Len(files)}

\* C22: when the sender of the loopback test has exited with status 0, the
\* receiver comes to hold as many files, one per buffer id, as the sender
\* reported buffers submitted, and the sender reported no send error
C22_LoopbackComplete ==
    (mpc = "exit" /\ exit_status = 0 /\ reported_buffers # RUNNING)
        ~> /\ Cardinality(FileNames) = reported_buffers
           /\ Len(files) = reported_buffers
           /\ send_stats.errCnt = 0

\* the same of a sender that returned with nothing left in the send queue
C22_LoopbackCompleteIfDrained ==
    (mpc = "exit" /\ exit_status = 0 /\ reported_buffers # RUNNING
       /\ sendQueue = <<>>)
        ~> \/ /\ Cardinality(FileNames) = reported_buffers
              /\ Len(files) = reported_buffers
              /\ send_stats.errCnt = 0
           \/ ~keep_receiving /\ Len(files) < reported_buffers

\* the batches of all the streams of the run the Segmenter has accepted
AcceptedByAll ==
    SumTo([w \in AllStreams |-> AcceptedCount(w)], numFiles - 1)

\* C31: in every sender run, also one in which a stream gave up after its
\* retries or on a non-transient error, the value main() reports as total
\* buffers submitted is the number of batches the Segmenter accepted, the
\* sum of the workers' total_batches_sent
C31_SubmittedIsAccepted ==
    (mpc = "exit" /\ reported_buffers # RUNNING) =>
        /\ reported_buffers = AcceptedByAll
        /\ AcceptedByAll = BatchesSentByAll

\* the receive loop is between two iterations, or has stopped
AtLoopBoundary == mpc \in {"while", "stats", "lost", "dereg", "stop", "cleanup", "exit"}

\* the bytes of the records the Reassembler has delivered so far
DeliveredBytes ==
    SumTo([k \in 0 .. (Len(recv_heap) - 1) |-> recv_heap[k + 1].size],
          Len(recv_heap) - 1)

\* the counters of ReceiveStats account for every delivered record
StatsBalanced ==
    /\ recv_stats.events_received = recv_stats.events_written + recv_stats.write_errors
    /\ recv_stats.events_received = Len(recv_heap)
    /\ recv_stats.total_bytes = DeliveredBytes

\* no counter of ReceiveStats goes down in a step
StatsGrow ==
    /\ recv_stats'.events_received >= recv_stats.events_received
    /\ recv_stats'.events_written >= recv_stats.events_written
    /\ recv_stats'.write_errors >= recv_stats.write_errors
    /\ recv_stats'.total_bytes >= recv_stats.total_bytes

\* C32: at every iteration boundary of the receive loop, and when it has
\* stopped, events_received = events_written + write_errors, events_received
\* is the number of records the Reassembler delivered so far and total_bytes
\* the sum of their lengths; none of the four counters ever decreases
C32_StatsBalance ==
    /\ [](AtLoopBoundary => StatsBalanced)
    /\ [][StatsGrow]_vars

\* the loop is between two iterations after a record that was written and
\* a record whose write failed
C32_Witness ==
    /\ mpc = "while"
    /\ recv_stats.events_received = 2
    /\ recv_stats.events_written = 1 /\ recv_stats.write_errors = 1
    /\ recv_stats.total_bytes = 3

\* the pattern holds a placeholder the function formats: "{:" with a "}"
\* after it
HasPlaceholder(pat) ==
    LET start == find(pat, <<"{", ":">>, 0)
    IN  start # npos /\ find(pat, <<"}">>, start) # npos

\* C33: for every output pattern with a well-formed placeholder
\* formatFilename gives distinct event numbers distinct file names: the name
\* it has just returned for one number is the name of no other number, and
\* two records the receiver wrote to one file have the same event number
C33_DistinctNames ==
    HasPlaceholder(pattern) =>
        /\ (mpc = "free" /\ filename.called /\ ~filename.threw) =>
              \A m \in 0 .. MaxFormatNum :
                  m # format_num =>
                      LET other == formatFilename(pattern, m)
                      IN  ~other.threw /\ other.name # filename.name
        /\ \A k, l \in 1 .. Len(files) :
              files[k].name = files[l].name => files[k].num = files[l].num

\* with the default pattern record 1 was written and then record 0, each
\* to a file of its own
C33_Witness ==
    /\ pattern = DefaultPattern
    /\ Len(files) = 2
    /\ files[1].num = 1 /\ files[2].num = 0
    /\ files[1].name # files[2].name
    /\ filename.name = files[2].name

\* a record was written over an earlier record of the same event number
C33_WitnessOverwrite ==
    /\ HasPlaceholder(pattern)
    /\ Len(files) = 2
    /\ files[1].num = files[2].num
    /\ files[1].name = files[2].name

\* the batches of stream w that are the worker's: allocated, not accepted by
\* the Segmenter and not deleted by the worker
Owned(w) ==
    {k \in Batches(w) : heap[w][k].byWorker = 0 /\ ~Accepted(w, k)}

\* C34 as stated: at every point of a sender run a worker owns at most one
\* batch that was neither handed to the Segmenter nor released, no batch
\* holds more than BATCH_SIZE_EVENTS records, and when a batch is allocated
\* every earlier batch of the worker was accepted by the Segmenter or
\* released by the worker
C34_OneOpenBatch ==
    \A w \in Streams :
        /\ Cardinality(Owned(w)) <= 1
        /\ \A k \in Batches(w) : Len(heap[w][k].data) <= BATCH_SIZE_EVENTS
        /\ \A k \in Batches(w) :
              k < Len(heap[w]) => (Accepted(w, k) \/ heap[w][k].byWorker >= 1)
        /\ \A k \in Owned(w) : pc[w] # "unspawned" /\ batch[w] = k

\* the records a batch can hold: the flush test follows the append, so a
\* batch holds one record before the test is made, whatever the capacity
BatchLimit == IF BATCH_SIZE_EVENTS >= 1 THEN BATCH_SIZE_EVENTS ELSE 1

\* C34, amended: a worker owns at most one batch that was neither handed to
\* the Segmenter nor released; no batch holds more than BATCH_SIZE_EVENTS
\* records, or more than one record when BATCH_SIZE_EVENTS is 0, which
\* parseArgs lets through without --send; and when a batch is allocated
\* every earlier batch of the worker was accepted by the Segmenter or
\* released by the worker
C34_OneOpenBatchWithinLimit ==
    \A w \in Streams :
        /\ Cardinality(Owned(w)) <= 1
        /\ \A k \in Batches(w) : Len(heap[w][k].data) <= BatchLimit
        /\ send_data => BATCH_SIZE_EVENTS >= 1
        /\ \A k \in Batches(w) :
              k < Len(heap[w]) => (Accepted(w, k) \/ heap[w][k].byWorker >= 1)
        /\ \A k \in Owned(w) : pc[w] # "unspawned" /\ batch[w] = k

\* without --send and with --bufsize-mb 0 the worker released two batches of
\* one record each and fills the third
C34_WitnessNoCapacity ==
    /\ ~send_data /\ BATCH_SIZE_EVENTS = 0
    /\ pc[0] = "loop"
    /\ Len(heap[0]) = 3
    /\ heap[0][1].byWorker = 1 /\ heap[0][2].byWorker = 1
    /\ Len(flushed[0]) = 2 /\ Len(flushed[0][1]) = 1 /\ Len(flushed[0][2]) = 1
    /\ Owned(0) = {3}

\* the worker offers its third batch while the first two, full ones, are
\* with the Segmenter
C34_Witness ==
    /\ send_data /\ BATCH_SIZE_EVENTS = 2
    /\ pc[0] = "send" /\ ~sent[0]
    /\ Len(heap[0]) = 3
    /\ Accepted(0, 1) /\ Accepted(0, 2)
    /\ Owned(0) = {3}
    /\ Len(heap[0][3].data) = 1

\* without --send the worker released two batches and fills the third
C34_WitnessReadOnly ==
    /\ ~send_data /\ BATCH_SIZE_EVENTS = 2
    /\ pc[0] = "loop"
    /\ Len(heap[0]) = 3
    /\ heap[0][1].byWorker = 1 /\ heap[0][2].byWorker = 1
    /\ Owned(0) = {3}

\* what writeToET does, in the current state of the ET system, to a record
\* of the given size
Written(size, new_ok, put_ok) == writeToET(et, etEvents, size, new_ok, put_ok)

\* the ET events the puts of which succeeded
Stored == {k \in 1 .. Len(etEvents) : etEvents[k].stored}

\* C35: writeToET refuses a record larger than the configured ET event
\* size, and any record when the ET system is not initialised, without
\* asking for an ET event; every event et_event_new gave is put exactly
\* once; a failure is returned as false, which the receive loop counts as
\* one write error, and the loop goes on
C35_WriteToET ==
    /\ [](\A size \in EventSizes : \A new_ok, put_ok \in BOOLEAN :
            LET r == Written(size, new_ok, put_ok)
            IN  /\ (~et.initialized \/ size > et.event_size) =>
                       (~r.ok /\ r.events = etEvents)
                /\ r.ok <=> (Len(r.events) = Len(etEvents) + 1 /\ put_ok))
    /\ [](\A k \in 1 .. Len(etEvents) :
            etEvents[k].puts = 1 /\ etEvents[k].length <= et.event_size)
    /\ [](AtLoopBoundary =>
            /\ recv_stats.events_written = Cardinality(Stored)
            /\ recv_stats.write_errors = Len(recv_heap) - Cardinality(Stored))
    /\ [][(mpc = "write" /\ mpc' # "write") =>
             /\ mpc' = "free"
             /\ exit_status' = exit_status
             /\ recv_stats'.events_written + recv_stats'.write_errors
                   = recv_stats.events_written + recv_stats.write_errors + 1]_vars

\* a record too large for the ET events was refused and counted, no event
\* was asked for, and the loop has polled again and stored the next record
C35_Witness ==
    /\ et.initialized /\ et.event_size = 1
    /\ Len(recv_heap) = 2
    /\ recv_heap[1].size = 2 /\ recv_heap[2].size = 1
    /\ mpc = "while"
    /\ recv_stats.write_errors = 1 /\ recv_stats.events_written = 1
    /\ Len(etEvents) = 1 /\ etEvents[1].stored

\* et_event_put failed: the event was put once, the record counted as a
\* write error
C35_WitnessPutFailed ==
    /\ mpc = "free"
    /\ Len(etEvents) = 1 /\ ~etEvents[1].stored /\ etEvents[1].puts = 1
    /\ recv_stats.write_errors = 1 /\ recv_stats.events_written = 0

\* cleanupET called once, and called again on what the first call left
CleanedOnce == cleanupET(et, etlib)
CleanedTwice == cleanupET(CleanedOnce.et, CleanedOnce.lib)

\* C36: a failure of initializeET after et_open succeeded closes the ET
\* system exactly once and leaves initialized false; cleanupET detaches and
\* closes only when initialized is true, so a second call, or a call after
\* a failed initializeET, detaches and closes nothing; and when the
\* Reassembler fails to initialise after ET was attached, ET is detached and
\* closed before the process exits with status 1
C36_EtReleased ==
    /\ (mpc = "exit" /\ etlib.attach = 0) =>
          /\ ~et.initialized
          /\ etlib.close = etlib.open /\ etlib.detach = 0
          /\ exit_status = 1
    /\ CleanedTwice = CleanedOnce
    /\ ~et.initialized => (CleanedOnce.et = et /\ CleanedOnce.lib = etlib)
    /\ (mpc = "exit" /\ etlib.attach = 1 /\ reassembler = "null") =>
          /\ ~et.initialized
          /\ etlib.detach = 1 /\ etlib.close = 1
          /\ exit_status = 1

\* the ET events the actor holds: got and not yet put back
Held == {k \in 1 .. Len(etEvents) : etEvents[k].puts = 0}

\* C37: the actor holds at most one ET event at any time; an event it got is
\* put back exactly once before the next et_event_get and before the loop is
\* left, a payload shorter than 128 bytes unread, after which the loop goes
\* on; and on every way out of the loop the process detaches from the
\* station and then closes the ET system, each exactly once
C37_OneEventHeld ==
    /\ [](/\ Cardinality(Held) <= 1
          /\ \A k \in 1 .. Len(etEvents) : etEvents[k].puts <= 1
          /\ Held = (IF apc = "handle" THEN {pe} ELSE {})
          /\ etlib.detach <= etlib.attach /\ etlib.close <= etlib.open
          /\ etlib.close = 1 => (etlib.detach = etlib.attach)
          /\ (apc = "close") => (etlib.detach = 1 /\ etlib.close = 0)
          /\ (apc = "exit" /\ etlib.attach = 1) =>
                (etlib.detach = 1 /\ etlib.close = 1 /\ exit_status = 0))
    /\ [][(apc = "handle" /\ apc' # "handle") =>
             /\ etEvents'[pe].puts = 1
             /\ TooShort(et_event.length) =>
                   (actor_out'.kind = "short"
                      /\ (etEvents'[pe].stored => apc' = "test"))]_vars

\* a short event was put back unread and the actor waits for the next one
C37_Witness ==
    /\ apc = "get"
    /\ Len(etEvents) = 1 /\ etEvents[1].length = 120
    /\ etEvents[1].puts = 1
    /\ actor_out.kind = "short"
    /\ Held = {}

\* the loop was left on a failed put and the process has detached and
\* closed
C37_WitnessFailedPut ==
    /\ apc = "exit"
    /\ Len(etEvents) = 2 /\ etEvents[1].stored /\ ~etEvents[2].stored
    /\ etEvents[2].puts = 1
    /\ etlib = [open |-> 1, close |-> 1, attach |-> 1, detach |-> 1]

\* C38: once the interrupt signal has set keep_running to false the event
\* loop is left and the shutdown sequence runs, also when no event reaches
\* the station any more
C38_ActorStops ==
    (~keep_running /\ apc # "exit") ~> (apc = "exit")
\* -------------------------------------------------------------------- C39
\* the frames the Segmenter makes of the buffers of a sequence of batches
RECURSIVE FramesOfAll(_)
FramesOfAll(bs) ==
    IF bs = <<>> THEN 0
    ELSE FramesOf(BufferSize(Head(bs))) + FramesOfAll(Tail(bs))

\* the ids of the accepted batches are 0, 1, .. in the order of acceptance
SeqIdsDense ==
    /\ \A j \in 1 .. Len(ids[SeqStream]) : ids[SeqStream][j] = j - 1
    /\ buffer_id \in {Len(ids[SeqStream]), Len(ids[SeqStream]) - 1}
    /\ buffer_id = Len(ids[SeqStream]) - 1
         => pc[SeqStream] \in {"send", "done"} /\ sent[SeqStream] = TRUE

\* buffer_id moves by one, and only for a batch that was accepted
SeqIdStep ==
    buffer_id' # buffer_id
        => /\ buffer_id' = buffer_id + 1
           /\ pc[SeqStream] = "send" /\ sent[SeqStream] = TRUE
           /\ ids[SeqStream][Len(ids[SeqStream])] = buffer_id

\* in and after the wait loop every flushed batch was accepted, and the
\* expected frame count is at most the frames of those buffers
SeqExpectedBounded ==
    pc[SeqStream] \in {"waitloop", "final", "report"}
        => /\ Len(ids[SeqStream]) = Len(flushed[SeqStream])
           /\ expected_frames <= FramesOfAll(flushed[SeqStream])

\* a send error the second getSendStats reports makes the file fail
SeqErrorFails ==
    /\ pc[SeqStream] = "done" /\ send_stats.errCnt > 0 => seq_result = "false"
    /\ mpc = "exit" /\ send_stats.errCnt > 0
         => failure_count = 1 /\ exit_status = 1

\* C39: in the sequential sender buffer_id is incremented only after a
\* batch was accepted, so the ids of the accepted batches of a file are
\* 0 .. B-1 without a gap; the expected frame count is never more than the
\* frames the Segmenter makes of the accepted buffers, so that, the Segmenter
\* sending or failing every frame, the wait loop ends; and a file whose
\* final statistics show a send error is reported failed.
C39_SequentialSender ==
    /\ [](SeqIdsDense /\ SeqExpectedBounded /\ SeqErrorFails)
    /\ [][SeqIdStep]_vars
    /\ (pc[SeqStream] = "waitloop") ~> (pc[SeqStream] = "done")

\* a file of several batches was reported sent when the expected frames,
\* fewer than the frames of its buffers, had been sent
C39_Witness ==
    /\ pc[SeqStream] = "done" /\ seq_result = "true"
    /\ Len(ids[SeqStream]) >= 2
    /\ expected_frames >= 2
    /\ expected_frames < FramesOfAll(flushed[SeqStream])
    /\ send_stats.msgCnt >= expected_frames

\* a send error ended the wait loop short of the expected frames and the
\* file was reported failed
C39_WitnessError ==
    /\ pc[SeqStream] = "done" /\ seq_result = "false"
    /\ send_stats.errCnt > 0
    /\ send_stats.msgCnt < expected_frames


====
